---- MODULE Spec2Model ----
(***************************************************************************)
(* A model of the rule-based analysis pipeline (analyzer.py, inference.py, *)
(* hybrid.py, db.py, api.py): the text functions are computed on character *)
(* strings as the Python code computes them, the pipeline is a set of      *)
(* tasks stepping through analyze_case against the shared store, the       *)
(* shared progress map and the shared generator singleton.                 *)
(***************************************************************************)
EXTENDS Integers, Sequences, FiniteSets, TLC

(***************************************************************************)
(* Character strings.  A Python str is a TLA+ string; Len, \o and SubSeq   *)
(* act on its characters.                                                  *)
(***************************************************************************)
Char(s, i) == SubSeq(s, i, i)

LowerAlpha == "abcdefghijklmnopqrstuvwxyz"

UpperAlpha == "ABCDEFGHIJKLMNOPQRSTUVWXYZ"

DigitChars == "0123456789_"

\* the characters the regex class \w matches (ASCII letters, digits, _)
WordCharSet ==
  {Char(LowerAlpha, i) : i \in 1..Len(LowerAlpha)}
    \cup {Char(UpperAlpha, i) : i \in 1..Len(UpperAlpha)}
    \cup {Char(DigitChars, i) : i \in 1..Len(DigitChars)}

\* the characters the regex class \s and str.strip() treat as whitespace
SpaceCharSet == {" ", "\n", "\t", "\r"}

IsWordChar(c) == c \in WordCharSet

IsSpace(c) == c \in SpaceCharSet

\* s[a-1:] : the characters of s from position a on
From(s, a) == IF a > Len(s) THEN "" ELSE SubSeq(s, a, Len(s))

\* s[:n]
Truncate(s, n) == IF Len(s) <= n THEN s ELSE SubSeq(s, 1, n)

LowerChar(c) ==
  IF \E i \in 1..Len(UpperAlpha) : Char(UpperAlpha, i) = c
    THEN Char(LowerAlpha, CHOOSE i \in 1..Len(UpperAlpha) : Char(UpperAlpha, i) = c)
    ELSE c

\* the characters a..b of s, each lowered (halving keeps the nesting flat)
RECURSIVE LowerRange(_, _, _)
LowerRange(s, a, b) ==
  IF a > b THEN ""
  ELSE IF a = b THEN LowerChar(Char(s, a))
  ELSE LowerRange(s, a, (a + b) \div 2) \o LowerRange(s, (a + b) \div 2 + 1, b)

\* str.lower()
lower(s) == LowerRange(s, 1, Len(s))

\* the least j in lo..hi with Q(j); hi when there is none
Least(lo, hi, Q(_)) ==
  IF lo >= hi THEN hi
  ELSE CHOOSE j \in lo..hi :
         /\ j = hi \/ Q(j)
         /\ \A k \in lo..(j - 1) : ~Q(k)

\* the position after the whitespace run that starts at i (i itself when none)
SkipSpace(s, i) ==
  IF i > Len(s) THEN i
  ELSE Least(i, Len(s) + 1, LAMBDA j : ~IsSpace(Char(s, j)))

\* the greatest position of a character that is no whitespace, 0 if none
LastNonSpace(s) ==
  CHOOSE j \in 0..Len(s) :
    /\ j = 0 \/ ~IsSpace(Char(s, j))
    /\ \A k \in (j + 1)..Len(s) : IsSpace(Char(s, k))

\* str.strip()
strip(s) ==
  LET a == SkipSpace(s, 1)
      b == LastNonSpace(s)
  IN  IF a > b THEN "" ELSE SubSeq(s, a, b)

\* the literal lit stands in s at position i
Occurs(s, lit, i) ==
  /\ i >= 1
  /\ i + Len(lit) - 1 <= Len(s)
  /\ SubSeq(s, i, i + Len(lit) - 1) = lit

\* the least position >= i where lit stands in s, 0 when there is none
Find(s, lit, i) ==
  LET m == Least(i, Len(s) + 1, LAMBDA j : Occurs(s, lit, j))
  IN  IF m <= Len(s) /\ Occurs(s, lit, m) THEN m ELSE 0

\* \b between positions i-1 and i: exactly one of the two is a word character
Boundary(s, i) ==
  LET before == i > 1 /\ i - 1 <= Len(s) /\ IsWordChar(Char(s, i - 1))
      after  == i >= 1 /\ i <= Len(s) /\ IsWordChar(Char(s, i))
  IN  before # after

\* the position of the first "\n" at or after i, Len(s)+1 when there is none
LineEnd(s, i) ==
  IF i > Len(s) THEN i
  ELSE Least(i, Len(s) + 1, LAMBDA j : Char(s, j) = "\n")

(***************************************************************************)
(* Regular-expression searches, one operator per pattern shape used by the *)
(* trigger lists.                                                          *)
(***************************************************************************)
\* re.search(r"\b<lit>", s)
SearchPrefix(s, lit) ==
  \E i \in 1..Len(s) : Boundary(s, i) /\ Occurs(s, lit, i)

\* re.search(r"\b<lit>\b", s)
SearchWord(s, lit) ==
  \E i \in 1..Len(s) :
    Boundary(s, i) /\ Occurs(s, lit, i) /\ Boundary(s, i + Len(lit))

\* a match of <a>\s+<b> starting at i
OccursSpaced(s, a, b, i) ==
  /\ Occurs(s, a, i)
  /\ LET j == i + Len(a)
     IN  SkipSpace(s, j) > j /\ Occurs(s, b, SkipSpace(s, j))

\* re.search(r"<a>\s+<b>", s)
SearchSpaced(s, a, b) == \E i \in 1..Len(s) : OccursSpaced(s, a, b, i)

\* re.search(r"\b<a>\s+<b>", s)
SearchPrefixSpaced(s, a, b) ==
  \E i \in 1..Len(s) : Boundary(s, i) /\ OccursSpaced(s, a, b, i)

\* re.search(r"\b<a>.<b>", s): any one character but a newline between
SearchPrefixDot(s, a, b) ==
  \E i \in 1..Len(s) :
    /\ Boundary(s, i) /\ Occurs(s, a, i)
    /\ i + Len(a) <= Len(s) /\ Char(s, i + Len(a)) # "\n"
    /\ Occurs(s, b, i + Len(a) + 1)

\* re.search(r"\b<a>.<b>\b", s)
SearchWordDot(s, a, b) ==
  \E i \in 1..Len(s) :
    /\ Boundary(s, i) /\ Occurs(s, a, i)
    /\ i + Len(a) <= Len(s) /\ Char(s, i + Len(a)) # "\n"
    /\ Occurs(s, b, i + Len(a) + 1)
    /\ Boundary(s, i + Len(a) + 1 + Len(b))

\* re.search(r"\b<a>\b.*\b<b>", s) and, with bEnds, r"\b<a>\b.*\b<b>\b":
\* both on one line, b after a
SearchThen(s, a, b, bEnds) ==
  \E i \in 1..Len(s) :
    /\ Boundary(s, i) /\ Occurs(s, a, i) /\ Boundary(s, i + Len(a))
    /\ \E j \in (i + Len(a))..Len(s) :
         /\ j <= LineEnd(s, i)
         /\ Boundary(s, j) /\ Occurs(s, b, j)
         /\ (bEnds => Boundary(s, j + Len(b)))

(***************************************************************************)
(* models.py: the enumerations, as the string values the store holds.      *)
(***************************************************************************)
THREAT == "threat"

SCAM == "scam"

ABUSE == "abuse"

PATTERN == "pattern"

TIMELINE_EVENT == "timeline_event"

COMMUNICATION == "communication"

FindingCategory == {THREAT, SCAM, ABUSE, PATTERN, TIMELINE_EVENT, COMMUNICATION}

LOW == "low"

MEDIUM == "medium"

HIGH == "high"

CRITICAL == "critical"

Severity == {LOW, MEDIUM, HIGH, CRITICAL}

\* RiskLevel has the same four values
RiskLevel == {"low", "medium", "high", "critical"}

CaseStatus == {"open", "analyzing", "complete"}

(***************************************************************************)
(* analyzer.py: the trigger lists.  A pattern is a record of its shape and *)
(* its literals; an optional character (photos?, can'?t) is written as the *)
(* two literals it stands for.                                             *)
(***************************************************************************)
P(kind, a, b) == [kind |-> kind, a |-> a, b |-> b]

Pre(lit) == P("prefix", {lit}, {})

Word(lit) == P("word", {lit}, {})

\* a match of \b<lit>\w*\b at i
OccursWordRest(s, lit, i) ==
  /\ Boundary(s, i) /\ Occurs(s, lit, i)
  /\ \E j \in (i + Len(lit))..(Len(s) + 1) :
       /\ \A k \in (i + Len(lit))..(j - 1) : IsWordChar(Char(s, k))
       /\ Boundary(s, j)

\* p.search(s) for a compiled pattern p
re_search(p, s) ==
  CASE p.kind = "prefix" -> \E x \in p.a : SearchPrefix(s, x)
    [] p.kind = "word" -> \E x \in p.a : SearchWord(s, x)
    [] p.kind = "word_rest" ->
         \E x \in p.a : \E i \in 1..Len(s) : OccursWordRest(s, x, i)
    [] p.kind = "prefix_dot" ->
         \E x \in p.a : \E y \in p.b : SearchPrefixDot(s, x, y)
    [] p.kind = "word_dot" ->
         \E x \in p.a : \E y \in p.b : SearchWordDot(s, x, y)
    [] p.kind = "prefix_spaced" ->
         \E x \in p.a : \E y \in p.b : SearchPrefixSpaced(s, x, y)
    [] p.kind = "then" ->
         \E x \in p.a : \E y \in p.b : SearchThen(s, x, y, FALSE)
    [] p.kind = "then_word" ->
         \E x \in p.a : \E y \in p.b : SearchThen(s, x, y, TRUE)

\* p.search(s) for a pattern compiled with re.IGNORECASE (ASCII letters)
re_search_ignorecase(p, s) == re_search(p, lower(s))

_CATEGORY_KEYWORDS ==
  << <<THREAT,
       << Pre("threat"), Pre("violence"), Pre("intimid"), Word("harm"),
          Word("kill"), Word("hurt"), Word("attack"), Word("danger"),
          Pre("blackmail"), Word("coerce"), Pre("extort") >> >>,
     <<SCAM,
       << Pre("scam"), Pre("fraud"), Pre("phish"), Word("money"),
          Word("investment"), Word("wire"), P("prefix_dot", {"advance"}, {"fee"}),
          Pre("decepti"), Pre("ponzi"),
          P("prefix_spaced", {"financial"}, {"harm", "loss", "exploit"}) >> >>,
     <<ABUSE,
       << Pre("abuse"), P("word_rest", {"control"}, {}), Pre("isolat"),
          Pre("domestic"), Pre("coercive"), Pre("manipulat"), Pre("gaslight"),
          Pre("exploit"), Word("duress"),
          P("prefix_spaced", {"power"}, {"imbalance"}) >> >>,
     <<PATTERN,
       << Pre("pattern"), Pre("escalat"), Pre("repeat"), Pre("cycle"),
          Pre("behavior"), Word("dynamic"), Pre("recurring") >> >> >>

_SEVERITY_HIGH_KEYWORDS ==
  << Pre("critical"), Word("severe"), Word("danger"), Pre("imminent"),
     Word("kill"), Word("hurt"), Pre("violence"), Pre("extort"),
     Pre("blackmail"), Pre("immedi"), Pre("criminal") >>

_SEVERITY_LOW_KEYWORDS ==
  << Word("minor"), Word("mild"), Word("normal"), Pre("no concern") >>

_CONCERNING_MSG_KEYWORDS ==
  << Word("kill"), Word("hurt"), Word("debt"), Word("owe"),
     P("prefix", {"can't leave", "cant leave"}, {}),
     P("then_word", {"delete"}, {"chat"}), Word("passport"),
     Pre("threat"), Word("family"), Word("police"),
     P("word", {"photo", "photos"}, {}),
     Word("private"), P("word", {"associate", "associates"}, {}),
     P("word", {"don't tell", "dont tell"}, {}),
     Word("trust me"), Word("only one"), Word("sabotage"),
     P("then_word", {"pay"}, {"back"}), Word("cooperate"), Word("wire"),
     Word("invest"), Word("confidential"), Word("urgent"),
     Word("money"), P("then", {"send"}, {"fund"}), Word("control") >>

\* any(p.search(t) for p in patterns)
AnyMatch(patterns, t) == \E i \in 1..Len(patterns) : re_search(patterns[i], t)

\* C15 sensitivity: the last trigger set that matches wins
_classify_by_keywords_last_hit(text) ==
  LET t == lower(text)
      hits == {i \in 1..Len(_CATEGORY_KEYWORDS) :
                 AnyMatch(_CATEGORY_KEYWORDS[i][2], t)}
      category ==
        IF hits = {} THEN COMMUNICATION
        ELSE _CATEGORY_KEYWORDS[CHOOSE i \in hits : \A j \in hits : i >= j][1]
      severity ==
        IF AnyMatch(_SEVERITY_HIGH_KEYWORDS, t) THEN HIGH
        ELSE IF AnyMatch(_SEVERITY_LOW_KEYWORDS, t) THEN LOW
        ELSE MEDIUM
  IN  <<category, severity>>

\* C16 sensitivity: the low-severity triggers tested before the high ones
_classify_by_keywords_low_first(text) ==
  LET t == lower(text)
      hits == {i \in 1..Len(_CATEGORY_KEYWORDS) :
                 AnyMatch(_CATEGORY_KEYWORDS[i][2], t)}
      category ==
        IF hits = {} THEN COMMUNICATION
        ELSE _CATEGORY_KEYWORDS[CHOOSE i \in hits : \A j \in hits : i <= j][1]
      severity ==
        IF AnyMatch(_SEVERITY_LOW_KEYWORDS, t) THEN LOW
        ELSE IF AnyMatch(_SEVERITY_HIGH_KEYWORDS, t) THEN HIGH
        ELSE MEDIUM
  IN  <<category, severity>>

_classify_by_keywords(text) ==
  LET t == lower(text)
      hits == {i \in 1..Len(_CATEGORY_KEYWORDS) :
                 AnyMatch(_CATEGORY_KEYWORDS[i][2], t)}
      category ==
        IF hits = {} THEN COMMUNICATION
        ELSE _CATEGORY_KEYWORDS[CHOOSE i \in hits : \A j \in hits : i <= j][1]
      severity ==
        IF AnyMatch(_SEVERITY_HIGH_KEYWORDS, t) THEN HIGH
        ELSE IF AnyMatch(_SEVERITY_LOW_KEYWORDS, t) THEN LOW
        ELSE MEDIUM
  IN  <<category, severity>>

\* sum(1 for p in _CONCERNING_MSG_KEYWORDS if p.search(msg.text))
ConcernScore(text) ==
  Cardinality({i \in 1..Len(_CONCERNING_MSG_KEYWORDS) :
                 re_search_ignorecase(_CONCERNING_MSG_KEYWORDS[i], text)})

\* C26 sensitivity: a later message of the same score replaces the best
RECURSIVE BestFrom_last_on_ties(_, _, _, _)
BestFrom_last_on_ties(chunk, i, best_msg, best_score) ==
  IF i > Len(chunk) THEN <<best_msg, best_score>>
  ELSE LET score == ConcernScore(chunk[i].text)
       IN  IF score >= best_score
             THEN BestFrom_last_on_ties(chunk, i + 1, chunk[i].text, score)
             ELSE BestFrom_last_on_ties(chunk, i + 1, best_msg, best_score)

\* the scoring loop: <<best_msg, best_score>> after the messages from i on
RECURSIVE BestFrom(_, _, _, _)
BestFrom(chunk, i, best_msg, best_score) ==
  IF i > Len(chunk) THEN <<best_msg, best_score>>
  ELSE LET score == ConcernScore(chunk[i].text)
       IN  IF score > best_score
             THEN BestFrom(chunk, i + 1, chunk[i].text, score)
             ELSE BestFrom(chunk, i + 1, best_msg, best_score)

_select_concerning_quote(chunk) ==
  LET best == BestFrom(chunk, 1, "", -1)
      nonblank == {i \in 1..Len(chunk) : strip(chunk[i].text) # ""}
  IN  IF best[2] <= 0 /\ nonblank # {}
        THEN Truncate(chunk[CHOOSE i \in nonblank : \A j \in nonblank : i <= j].text, 300)
        ELSE Truncate(best[1], 300)

(***************************************************************************)
(* analyzer.py: _strip_thinking and _clean_response.  Each re.sub is a     *)
(* left-to-right scan that copies the characters no match covers.          *)
(***************************************************************************)
\* re.sub(r"<think>.*?</think>", "", s, flags=re.DOTALL)
RECURSIVE RemovePaired(_)
RemovePaired(s) ==
  LET i == Find(s, "<think>", 1)
      j == IF i = 0 THEN 0 ELSE Find(s, "</think>", i + 7)
  IN  IF i = 0 \/ j = 0 THEN s
      ELSE SubSeq(s, 1, i - 1) \o RemovePaired(From(s, j + 8))

\* re.sub(r"<think>.*", "", s, flags=re.DOTALL)
TruncateOpen(s) ==
  LET i == Find(s, "<think>", 1)
  IN  IF i = 0 THEN s ELSE SubSeq(s, 1, i - 1)

_strip_thinking(text) == strip(TruncateOpen(RemovePaired(text)))

\* ^ under re.MULTILINE
AtLineStart(s, i) == i = 1 \/ Char(s, i - 1) = "\n"

\* the length of the run of character c that starts at i
RunLen(s, c, i) ==
  IF i > Len(s) THEN 0
  ELSE Least(i, Len(s) + 1, LAMBDA j : Char(s, j) # c) - i

\* s[a-1:b-1]: the characters from position a up to, not including, b
Between(s, a, b) == IF a >= b THEN "" ELSE SubSeq(s, a, b - 1)

\* ^#{1,4}\s+.*$ matches at i
HeaderAt(s, i) ==
  LET h == RunLen(s, "#", i)
  IN  /\ AtLineStart(s, i)
      /\ h >= 1 /\ h <= 4
      /\ i + h <= Len(s) /\ IsSpace(Char(s, i + h))

\* re.sub(r"^#{1,4}\s+.*$", "", s, flags=re.MULTILINE), from position i:
\* one level of recursion per match
RECURSIVE StripHeaders(_, _)
StripHeaders(s, i) ==
  LET m == Least(i, Len(s) + 1, LAMBDA j : HeaderAt(s, j))
  IN  IF m > Len(s) THEN From(s, i)
      ELSE Between(s, i, m)
             \o StripHeaders(s, LineEnd(s, SkipSpace(s, m + RunLen(s, "#", m))))

\* a sample character (U+26A0) of the code-point ranges the emoji class lists
EmojiCharSet == {"⚠"}

\* re.sub(r"[<emoji ranges>]", "", s), from position i
RECURSIVE StripEmoji(_, _)
StripEmoji(s, i) ==
  LET m == Least(i, Len(s) + 1, LAMBDA j : Char(s, j) \in EmojiCharSet)
  IN  IF m > Len(s) THEN From(s, i)
      ELSE Between(s, i, m) \o StripEmoji(s, m + 1)

Min(a, b) == IF a <= b THEN a ELSE b

\* re.sub(r"\*{1,3}([^*]+)\*{1,3}", r"\1", s), from position i
\* \*{1,3}([^*]+)\*{1,3} matches at i: at most three stars to the end of
\* their run, and a later star
BoldAt(s, i) ==
  LET r == RunLen(s, "*", i)
  IN  r >= 1 /\ r <= 3 /\ Find(s, "*", i + r) > i + r

RECURSIVE StripBold(_, _)
StripBold(s, i) ==
  LET m == Least(i, Len(s) + 1, LAMBDA j : BoldAt(s, j))
      r == RunLen(s, "*", m)
      q == Find(s, "*", m + r)
  IN  IF m > Len(s) THEN From(s, i)
      ELSE Between(s, i, m) \o Between(s, m + r, q)
             \o StripBold(s, q + Min(RunLen(s, "*", q), 3))

\* re.sub(r"^-{3,}$", "", s, flags=re.MULTILINE), from position i
\* ^-{3,}$ matches at i
RuleAt(s, i) ==
  LET d == RunLen(s, "-", i)
  IN  AtLineStart(s, i) /\ d >= 3 /\ LineEnd(s, i + d) = i + d

RECURSIVE StripRules(_, _)
StripRules(s, i) ==
  LET m == Least(i, Len(s) + 1, LAMBDA j : RuleAt(s, j))
  IN  IF m > Len(s) THEN From(s, i)
      ELSE Between(s, i, m) \o StripRules(s, m + RunLen(s, "-", m))

\* re.sub(r"\n{2,}", " ", s), from position i
RECURSIVE CollapseNewlines(_, _)
CollapseNewlines(s, i) ==
  LET m == Least(i, Len(s) + 1, LAMBDA j : RunLen(s, "\n", j) >= 2)
  IN  IF m > Len(s) THEN From(s, i)
      ELSE Between(s, i, m) \o " "
             \o CollapseNewlines(s, m + RunLen(s, "\n", m))

\* re.sub(r"\s{2,}", " ", s), from position i
RECURSIVE CollapseSpaces(_, _)
CollapseSpaces(s, i) ==
  LET m == Least(i, Len(s) + 1, LAMBDA j : SkipSpace(s, j) - j >= 2)
  IN  IF m > Len(s) THEN From(s, i)
      ELSE Between(s, i, m) \o " " \o CollapseSpaces(s, SkipSpace(s, m))

\* the least position >= i of a whitespace character that follows . ! or ?,
\* 0 when there is none: where (?<=[.!?])\s+ matches next
NextSplit(s, i) ==
  LET m == Least(i, Len(s) + 1,
                 LAMBDA j : /\ j > 1 /\ IsSpace(Char(s, j))
                            /\ Char(s, j - 1) \in {".", "!", "?"})
  IN  IF m > Len(s) THEN 0 ELSE m

\* re.split(r"(?<=[.!?])\s+", s), the pieces from position start on
RECURSIVE SplitSentences(_, _)
SplitSentences(s, start) ==
  LET p == NextSplit(s, start)
  IN  IF p = 0 THEN << From(s, start) >>
      ELSE << (IF p > start THEN SubSeq(s, start, p - 1) ELSE "") >>
             \o SplitSentences(s, SkipSpace(s, p))

\* seen.get(key, 0): how often key stands in the keys counted so far
CountKey(keys, key) == Cardinality({i \in 1..Len(keys) : keys[i] = key})

\* the repetition loop: the sentences kept, given the keys counted so far
RECURSIVE KeepSentences(_, _, _)
KeepSentences(sentences, i, keys) ==
  IF i > Len(sentences) THEN << >>
  ELSE LET key == Truncate(lower(strip(sentences[i])), 60)
       IN  IF key = "" THEN KeepSentences(sentences, i + 1, keys)
           ELSE IF CountKey(keys, key) + 1 >= 3 THEN << >>
           ELSE << sentences[i] >>
                  \o KeepSentences(sentences, i + 1, Append(keys, key))

\* " ".join(parts)
RECURSIVE Join(_, _)
Join(parts, i) ==
  IF i > Len(parts) THEN ""
  ELSE IF i = Len(parts) THEN parts[i]
  ELSE parts[i] \o " " \o Join(parts, i + 1)

\* C25 sensitivity: the cleaned text returned whole
_clean_response_uncut(text) ==
  LET t0 == _strip_thinking(text)
      t1 == StripHeaders(t0, 1)
      t2 == StripEmoji(t1, 1)
      t3 == StripBold(t2, 1)
      t4 == StripRules(t3, 1)
      t5 == CollapseNewlines(t4, 1)
      t6 == CollapseSpaces(t5, 1)
      clean == KeepSentences(SplitSentences(t6, 1), 1, << >>)
  IN  IF t0 = "" THEN "" ELSE strip(Join(clean, 1))

_clean_response(text) ==
  LET t0 == _strip_thinking(text)
      t1 == StripHeaders(t0, 1)
      t2 == StripEmoji(t1, 1)
      t3 == StripBold(t2, 1)
      t4 == StripRules(t3, 1)
      t5 == CollapseNewlines(t4, 1)
      t6 == CollapseSpaces(t5, 1)
      clean == KeepSentences(SplitSentences(t6, 1), 1, << >>)
  IN  IF t0 = "" THEN "" ELSE Truncate(strip(Join(clean, 1)), 500)

(***************************************************************************)
(* analyzer.py: _chunk_messages.  A message is a record [sender, text].    *)
(***************************************************************************)
CHUNK_SIZE == 6

CHUNK_OVERLAP == 1

Max(a, b) == IF a >= b THEN a ELSE b

\* C12 sensitivity: windows one message shorter
Slice_short(messages, i) ==
  IF i >= Len(messages) THEN << >>
  ELSE SubSeq(messages, i + 1, Min(i + CHUNK_SIZE - 1, Len(messages)))

\* messages[i : i + CHUNK_SIZE] for a 0-based start i
Slice(messages, i) ==
  IF i >= Len(messages) THEN << >>
  ELSE SubSeq(messages, i + 1, Min(i + CHUNK_SIZE, Len(messages)))

\* the loop over range(i, len(messages), step)
RECURSIVE ChunksFrom(_, _, _)
ChunksFrom(messages, i, step) ==
  IF i >= Len(messages) THEN << >>
  ELSE (IF Slice(messages, i) # << >> THEN << Slice(messages, i) >> ELSE << >>)
         \o ChunksFrom(messages, i + step, step)

\* C14 sensitivity: windows that start where the one before ended
_chunk_messages_disjoint(messages) ==
  IF Len(messages) = 0 THEN << >>
  ELSE ChunksFrom(messages, 0, CHUNK_SIZE)

_chunk_messages(messages) ==
  IF Len(messages) = 0 THEN << >>
  ELSE ChunksFrom(messages, 0, Max(1, CHUNK_SIZE - CHUNK_OVERLAP))

(***************************************************************************)
(* Python values read from the generator's JSON: a str, None or a number,  *)
(* each tagged with its type.                                              *)
(***************************************************************************)
Str(s) == [t |-> "str", v |-> s]

None == [t |-> "none", v |-> ""]

Num(digits) == [t |-> "int", v |-> digits]

\* not x
Falsy(x) == x.t = "none" \/ (x.t = "str" /\ x.v = "") \/ (x.t = "int" /\ x.v = "0")

\* d.get(key, default) for a dict d, a record here
dict_get(d, key, default) == IF key \in DOMAIN d THEN d[key] ELSE default

(***************************************************************************)
(* json.loads on the documents the model's generator emits: an object with *)
(* the one member "response", {"response": V}, V a string literal with the *)
(* escapes \" \\ \n \t, null, or digits.  Any other text is a              *)
(* JSONDecodeError.                                                        *)
(***************************************************************************)
JSONDecodeError == [error |-> "JSONDecodeError"]

\* the decoded characters of a string literal's inside, from position i,
\* one level of recursion per escape; ok is FALSE at a bare quote, a
\* control character or an unknown escape
RECURSIVE Unescape(_, _)
Unescape(s, i) ==
  LET m == Least(i, Len(s) + 1, LAMBDA j : Char(s, j) = "\\")
      plain == Between(s, i, m)
      bad == \E k \in 1..Len(plain) : Char(plain, k) \in {"\"", "\n", "\t", "\r"}
      e == IF m < Len(s) THEN Char(s, m + 1) ELSE ""
      one == CASE e = "n" -> "\n" [] e = "t" -> "\t"
               [] e = "\"" -> "\"" [] e = "\\" -> "\\"
               [] OTHER -> ""
      rest == Unescape(s, m + 2)
  IN  IF bad THEN [ok |-> FALSE, v |-> ""]
      ELSE IF m > Len(s) THEN [ok |-> TRUE, v |-> plain]
      ELSE IF one = "" \/ ~rest.ok THEN [ok |-> FALSE, v |-> ""]
      ELSE [ok |-> TRUE, v |-> plain \o one \o rest.v]

IsDigits(s) ==
  Len(s) >= 1 /\ \A i \in 1..Len(s) : Char(s, i) \in
    {"0", "1", "2", "3", "4", "5", "6", "7", "8", "9"}

ResponseKey == "{\"response\": "

json_loads(s) ==
  IF ~(Len(s) > Len(ResponseKey) /\ Occurs(s, ResponseKey, 1)
        /\ Char(s, Len(s)) = "}")
    THEN JSONDecodeError
  ELSE LET val == SubSeq(s, Len(ResponseKey) + 1, Len(s) - 1)
           inner == IF Len(val) >= 2 THEN SubSeq(val, 2, Len(val) - 1) ELSE ""
       IN  IF val = "null" THEN [response |-> None]
           ELSE IF IsDigits(val) /\ (Len(val) = 1 \/ Char(val, 1) # "0")
             THEN [response |-> Num(val)]
           ELSE IF Len(val) >= 2 /\ Char(val, 1) = "\"" /\ Char(val, Len(val)) = "\""
                   /\ Unescape(inner, 1).ok
             THEN [response |-> Str(Unescape(inner, 1).v)]
           ELSE JSONDecodeError

(***************************************************************************)
(* inference.py: _parse_response.                                          *)
(***************************************************************************)
\* the brace scan: the 1-based position of the "}" that brings depth back
\* to 0 (the code's end), -1 when there is none
\* (one level of recursion per brace: the other characters are skipped)
RECURSIVE ScanBraces(_, _, _)
ScanBraces(raw, i, depth) ==
  LET m == Least(i, Len(raw) + 1, LAMBDA j : Char(raw, j) \in {"{", "}"})
  IN  IF m > Len(raw) THEN -1
      ELSE IF Char(raw, m) = "{" THEN ScanBraces(raw, m + 1, depth + 1)
      ELSE IF depth - 1 = 0 THEN m
      ELSE ScanBraces(raw, m + 1, depth - 1)

_parse_response(raw) ==
  LET end == ScanBraces(raw, 1, 0)
  IN  IF end = -1
        THEN [success |-> FALSE, error |-> "no_json_in_response",
              response |-> Str(raw)]
      ELSE IF json_loads(Truncate(raw, end)) = JSONDecodeError
        THEN [success |-> FALSE, error |-> "json_parse_error",
              response |-> Str(Truncate(raw, end))]
      ELSE json_loads(Truncate(raw, end))

(***************************************************************************)
(* analyzer.py: _process_response.  The result is the list of findings to  *)
(* add (add_finding gives each its id), or the exception raised.           *)
(***************************************************************************)
\* the explicit "no concerns" search on explanation.lower()
NoConcern(t) ==
  \/ SearchSpaced(t, "no", "concern")
  \/ SearchSpaced(t, "nothing", "wrong")
  \/ SearchSpaced(t, "normal", "conversation")
  \/ \E i \in 1..Len(t) :
       /\ OccursSpaced(t, "no", "red", i)
       /\ OccursSpaced(t, "red", "flag", SkipSpace(t, i + 2))
  \/ SearchSpaced(t, "no", "issue")

sev_order == << LOW, MEDIUM, HIGH, CRITICAL >>

\* sev_order.index(s)
SevIndex(s) == CHOOSE i \in 1..Len(sev_order) : sev_order[i] = s

\* max(a, b, key=sev_order.index): the first of the greatest
MaxSeverity(a, b) == IF SevIndex(b) > SevIndex(a) THEN b ELSE a

\* " ".join(m.text for m in chunk)
RECURSIVE JoinTexts(_, _)
JoinTexts(chunk, i) ==
  IF i > Len(chunk) THEN ""
  ELSE IF i = Len(chunk) THEN chunk[i].text
  ELSE chunk[i].text \o " " \o JoinTexts(chunk, i + 1)

NoFindings == [error |-> "", findings |-> << >>]

\* C17 sensitivity: the finding classified from the generator text alone
BuildFinding_model_only(explanation, model, conv, the_case_id, file_id, source, chunk_index, chunk) ==
  [error |-> "",
   findings |-> <<
     [case_id |-> the_case_id, file_id |-> file_id,
      category |-> model[1],
      severity |-> model[2],
      quote |-> _select_concerning_quote(chunk),
      explanation |-> explanation,
      source |-> source, chunk_index |-> chunk_index] >>]

\* C24 sensitivity: the finding with the severity of the generator text
BuildFinding_model_severity(explanation, model, conv, the_case_id, file_id, source, chunk_index, chunk) ==
  [error |-> "",
   findings |-> <<
     [case_id |-> the_case_id, file_id |-> file_id,
      category |-> IF model[1] # COMMUNICATION THEN model[1] ELSE conv[1],
      severity |-> model[2],
      quote |-> _select_concerning_quote(chunk),
      explanation |-> explanation,
      source |-> source, chunk_index |-> chunk_index] >>]

\* the finding for a cleaned text that passed the gates
BuildFinding(explanation, model, conv, the_case_id, file_id, source, chunk_index, chunk) ==
  [error |-> "",
   findings |-> <<
     [case_id |-> the_case_id, file_id |-> file_id,
      category |-> IF model[1] # COMMUNICATION THEN model[1] ELSE conv[1],
      severity |-> MaxSeverity(model[2], conv[2]),
      quote |-> _select_concerning_quote(chunk),
      explanation |-> explanation,
      source |-> source, chunk_index |-> chunk_index] >>]

\* C4 sensitivity: the length gate with <= in place of <
GateCleaned_at_most_20(explanation, the_case_id, file_id, source, chunk_index, chunk) ==
  IF explanation = "" \/ Len(explanation) <= 20 THEN NoFindings
  ELSE IF NoConcern(lower(explanation)) THEN NoFindings
  ELSE BuildFinding(explanation, _classify_by_keywords(explanation),
                    _classify_by_keywords(JoinTexts(chunk, 1)),
                    the_case_id, file_id, source, chunk_index, chunk)

\* _process_response from the cleaned text on
GateCleaned(explanation, the_case_id, file_id, source, chunk_index, chunk) ==
  IF explanation = "" \/ Len(explanation) < 20 THEN NoFindings
  ELSE IF NoConcern(lower(explanation)) THEN NoFindings
  ELSE BuildFinding(explanation, _classify_by_keywords(explanation),
                    _classify_by_keywords(JoinTexts(chunk, 1)),
                    the_case_id, file_id, source, chunk_index, chunk)

_process_response(response_text, the_case_id, file_id, source, chunk_index, chunk) ==
  IF Falsy(response_text) THEN NoFindings
  ELSE IF response_text.t # "str"
    THEN [error |-> "AttributeError", findings |-> << >>]
  ELSE IF strip(response_text.v) = "" THEN NoFindings
  ELSE GateCleaned(_clean_response(response_text.v), the_case_id, file_id,
                   source, chunk_index, chunk)

(***************************************************************************)
(* analyzer.py: _compute_risk_level, on the list of findings.              *)
(***************************************************************************)
\* severities.count(sev)
CountSeverity(the_findings, sev) ==
  Cardinality({i \in 1..Len(the_findings) : the_findings[i].severity = sev})

\* C11 sensitivity: the cascade over the findings after the first one
_compute_risk_level_skip_first(the_findings) ==
  IF Len(the_findings) = 0 THEN "low"
  ELSE IF \E i \in 2..Len(the_findings) : the_findings[i].severity = CRITICAL
    THEN "critical"
  ELSE IF CountSeverity(Tail(the_findings), HIGH) >= 2 THEN "critical"
  ELSE IF CountSeverity(Tail(the_findings), HIGH) >= 1 THEN "high"
  ELSE IF CountSeverity(Tail(the_findings), MEDIUM) >= 3 THEN "high"
  ELSE IF CountSeverity(Tail(the_findings), MEDIUM) >= 1 THEN "medium"
  ELSE "low"

\* C1 sensitivity: the cascade with the two MEDIUM rules in the other order
_compute_risk_level_medium_first(the_findings) ==
  IF Len(the_findings) = 0 THEN "low"
  ELSE IF \E i \in 1..Len(the_findings) : the_findings[i].severity = CRITICAL
    THEN "critical"
  ELSE IF CountSeverity(the_findings, HIGH) >= 2 THEN "critical"
  ELSE IF CountSeverity(the_findings, HIGH) >= 1 THEN "high"
  ELSE IF CountSeverity(the_findings, MEDIUM) >= 1 THEN "medium"
  ELSE IF CountSeverity(the_findings, MEDIUM) >= 3 THEN "high"
  ELSE "low"

_compute_risk_level(the_findings) ==
  IF Len(the_findings) = 0 THEN "low"
  ELSE IF \E i \in 1..Len(the_findings) : the_findings[i].severity = CRITICAL
    THEN "critical"
  ELSE IF CountSeverity(the_findings, HIGH) >= 2 THEN "critical"
  ELSE IF CountSeverity(the_findings, HIGH) >= 1 THEN "high"
  ELSE IF CountSeverity(the_findings, MEDIUM) >= 3 THEN "high"
  ELSE IF CountSeverity(the_findings, MEDIUM) >= 1 THEN "medium"
  ELSE "low"

(***************************************************************************)
(* The world the pipeline runs in: the cases of the store with their files *)
(* (db.py), the parsed messages of each uploaded file, and the texts the   *)
(* generator may return.                                                   *)
(***************************************************************************)
Msg(sender, text) == [sender |-> sender, text |-> text]

\* the ids of the cases in the store
CaseIds == {"c1", "c2"}

\* an id no case has
MissingId == "c9"

AllIds == CaseIds \cup {MissingId}

\* no argument: the value of case_id in a task that never ran
NoId == ""

\* case_files of each case, in created_at order
FilesOf ==
  [c \in CaseIds |->
     IF c = "c1" THEN << "f1" >> ELSE << "f2", "f3", "f4", "f5" >>]

\* the files whose upload is on disk (file_path.exists())
OnDisk == {"f1", "f2", "f4", "f5"}

\* parse_file(text, filename)[1] of each upload: 7 messages (two windows),
\* 2 messages, no message, 1 message
MessagesOf ==
  [f \in OnDisk |->
     CASE f = "f1" ->
            << Msg("A", "hello, how was the trip"),
               Msg("B", "it was a normal day, a minor delay"),
               Msg("A", "you owe me money"),
               Msg("B", "I know, I need more time"),
               Msg("A", "I will hurt you if you tell anyone"),
               Msg("A", "please don't say anything to the police"),
               Msg("B", "ok") >>
       [] f = "f2" ->
            << Msg("A", "see you at noon"),
               Msg("B", "fine, a mild surprise") >>
       [] f = "f5" ->
            << Msg("C", "send the funds by wire, it is urgent") >>
       [] OTHER -> << >>]

\* json.dumps({"response": text}) for a text without quotes or controls
Document(text) == ResponseKey \o "\"" \o text \o "\"}"

\* a text with no JSON object in it
CrashText == "model crashed: severe kernel fault detected"

\* one sentence five times over
RepeatedText ==
  "He controls her money. He controls her money. He controls her money. He controls her money. He controls her money."

\* what cactus_complete may return in a run of the pipeline
RawOutputs ==
  { "", CrashText, "{\"response\": 42}", Document(RepeatedText) }

\* the texts _process_response is applied to on its own
Responses ==
  { None, Str(""), Str("   "), Str(" \n\t "),
    Str("Looks fine."),
    Str("   Looks fine.            "),
    Str("12345678901234567890"),
    Str("1234567890123456789"),
    Str("This is a normal conversation with no red flags."),
    Str("There is no   concern about these messages."),
    Str("I see nothing wrong in this exchange at all."),
    Str("No issues were found in this conversation."),
    Str("<think>the user wants an analysis"),
    Str("<think>no concern</think>The sender makes a threat to isolate the victim."),
    Str("## Summary\n**The sender** makes a threat to isolate the victim."),
    Str("The tone is mild and the matter is minor overall."),
    Str("The messages show an ordinary exchange between two people."),
    Str(CrashText),
    Str(RepeatedText) }

\* the background tasks (thread-pool workers) that may run analyze_case
Tasks == {"t1", "t2"}

\* how many runs of analyze_case are started in all
MaxRuns == 2

\* the longest list of findings _compute_risk_level is applied to on its own
MaxFindings == 4

\* the longest message list _chunk_messages is applied to on its own
MaxMessages == 12

\* the length of the long message of a chunk
LongMessageLen == 301

\* the most findings of the lists _recommend_actions is applied to
MaxActionLen == 2

\* the most sentences of the texts _clean_response is applied to
MaxSentencesIn == 3

\* the most messages of a chunk a quote is selected from
MaxQuoteChunk == 2

\* the number of sentences of the long generator text
ManySentences == 12

\* the longest of the mixed finding lists _score_pillar is applied to
MaxScoreLen == 3

\* the length of the long lists of matching CRITICAL findings
ManyMatching == 20

(***************************************************************************)
(* State.                                                                  *)
(***************************************************************************)
VARIABLES
  cases,              \* db: cases table, id -> [status, risk_level]
  findings,           \* db: findings table, in created_at order
  next_id,            \* db: the ids _new_id has handed out
  analysis_progress,  \* analyzer.analysis_progress
  _model,             \* inference._model: "None" or "handle"
  weights,            \* whether _find_weights() finds the weights
  kv_cache,           \* the session state of the model: whose calls fed it
  in_call,            \* the tasks inside cactus_complete
  pc,                 \* per task: where it stands in analyze_case
  case_id,            \* per task: the argument of analyze_case
  file_chunks,        \* per task: the local file_chunks
  pos,                \* per task: how many chunks its loop has finished
  result,             \* per task: what generate_hybrid returned
  all_findings,       \* per task: the local all_findings
  runs_started,       \* how many runs were started
  fn_call,            \* a function applied on its own, and its arguments
  fn_ret              \* what it returned

vars ==
  << cases, findings, next_id, analysis_progress, _model, weights, kv_cache,
     in_call, pc, case_id, file_chunks, pos, result, all_findings,
     runs_started, fn_call, fn_ret >>

store == << cases, findings, next_id >>

generator == << _model, weights, kv_cache, in_call >>

locals == << case_id, file_chunks, pos, result, all_findings >>

pure == << fn_call, fn_ret >>

\* the task is not inside analyze_case
Resting == {"idle", "returned", "raised", "aborted"}

NoWork == [file_id |-> "", chunk_index |-> 0, chunk |-> << >>]

\* no report: generate_report raised ValueError
NoReport ==
  [raised |-> TRUE, risk_level |-> "", total_findings |-> 0,
   pillar_scores |-> << >>, rating |-> <<"", 0>>, summary |-> "",
   key_findings |-> << >>, actions |-> << >>]

NoCall ==
  [fn |-> "none", the_findings |-> << >>, response_text |-> None,
   work |-> NoWork, messages |-> << >>, text |-> "", pillar |-> 0,
   pillar_scores |-> << >>, id |-> ""]

NoRet ==
  [done |-> FALSE, risk |-> "", out |-> NoFindings, chunks |-> << >>,
   classified |-> <<COMMUNICATION, MEDIUM>>, scored |-> <<0, << >> >>,
   rating |-> <<"", 0>>, report |-> NoReport,
   progress |-> [total |-> 0, completed |-> 0, status |-> "idle"],
   quote |-> "", cleaned |-> "", actions |-> << >>]

NoResult == [response |-> Str(""), source |-> "local"]

\* the store and the generator before any request, no task running
Quiet ==
  /\ cases = [c \in CaseIds |-> [status |-> "open", risk_level |-> "low"]]
  /\ findings = << >>
  /\ next_id = 0
  /\ analysis_progress = << >>
  /\ _model = "None"
  /\ kv_cache = {}
  /\ in_call = {}
  /\ pc = [t \in Tasks |-> "idle"]
  /\ case_id = [t \in Tasks |-> NoId]
  /\ file_chunks = [t \in Tasks |-> << >>]
  /\ pos = [t \in Tasks |-> 0]
  /\ result = [t \in Tasks |-> NoResult]
  /\ all_findings = [t \in Tasks |-> << >>]
  /\ runs_started = 0

Init ==
  /\ Quiet
  /\ weights \in BOOLEAN
  /\ fn_call = NoCall
  /\ fn_ret = NoRet

(***************************************************************************)
(* db.py: the operations analyze_case calls, each one committed            *)
(* transaction.  An operator gives the table's next value.                 *)
(***************************************************************************)
NoCase == [found |-> FALSE, id |-> "", files |-> << >>]

\* C6 sensitivity: a get_case that finds a case for every id
get_case_any(c) ==
  IF c \in DOMAIN cases
    THEN [found |-> TRUE, id |-> c, files |-> FilesOf[c]]
    ELSE [found |-> TRUE, id |-> c, files |-> << >>]

\* get_case: None for an id the cases table does not hold
get_case(c) ==
  IF c \in DOMAIN cases
    THEN [found |-> TRUE, id |-> c, files |-> FilesOf[c]]
    ELSE NoCase

\* the findings of case c, in created_at order
list_findings(c) == SelectSeq(findings, LAMBDA f : f.case_id = c)

\* C2 sensitivity: a clear_findings that deletes nothing
clear_findings_none(c) == findings

\* C18 sensitivity: a clear_findings that deletes the oldest finding only
clear_findings_oldest(c) ==
  SelectSeq(findings,
            LAMBDA f : f.case_id # c
                       \/ \E i \in 1..Len(findings) :
                            findings[i].case_id = c /\ findings[i].id < f.id)

\* clear_findings: DELETE FROM findings WHERE case_id = c
clear_findings(c) == SelectSeq(findings, LAMBDA f : f.case_id # c)

\* update_case: UPDATE cases SET key = value WHERE id = c, for each kwarg
update_case(c, kwargs) ==
  IF c \in DOMAIN cases
    THEN [cases EXCEPT ![c] =
            [k \in DOMAIN cases[c] |->
               IF k \in DOMAIN kwargs THEN kwargs[k] ELSE cases[c][k]]]
    ELSE cases

\* add_finding: the row inserted, id the value _new_id() gives it
add_finding(fields, id) ==
  [id |-> id, case_id |-> fields.case_id, file_id |-> fields.file_id,
   category |-> fields.category, severity |-> fields.severity,
   quote |-> fields.quote, explanation |-> fields.explanation,
   source |-> fields.source, chunk_index |-> fields.chunk_index]

(***************************************************************************)
(* analyzer.py: analyze_case, the parts that compute.                      *)
(***************************************************************************)
\* the loop over case.files that builds file_chunks, from file i on
RECURSIVE ScanFiles(_, _)
ScanFiles(files, i) ==
  IF i > Len(files) THEN << >>
  ELSE IF files[i] \notin OnDisk THEN ScanFiles(files, i + 1)
  ELSE << << files[i], _chunk_messages(MessagesOf[files[i]]) >> >>
         \o ScanFiles(files, i + 1)

\* C8 sensitivity: the files visited last to first
RECURSIVE Work_backwards(_, _)
Work_backwards(fc, i) ==
  IF i > Len(fc) THEN << >>
  ELSE Work_backwards(fc, i + 1)
         \o [k \in 1..Len(fc[i][2]) |->
               [file_id |-> fc[i][1], chunk_index |-> k - 1,
                chunk |-> fc[i][2][k]]]

\* the (file, i, chunk) triples in the order the nested loops visit them
RECURSIVE Work(_, _)
Work(fc, i) ==
  IF i > Len(fc) THEN << >>
  ELSE [k \in 1..Len(fc[i][2]) |->
          [file_id |-> fc[i][1], chunk_index |-> k - 1, chunk |-> fc[i][2][k]]]
         \o Work(fc, i + 1)

\* total_chunks
TotalChunks(fc) == Len(Work(fc, 1))

\* hybrid.generate: the dict returned for the raw text of cactus_complete
generate(raw) ==
  [response |-> dict_get(_parse_response(raw), "response", Str("")),
   source |-> "local"]

\* generate(raw) for every raw text, computed once
GenerateTable == [raw \in RawOutputs |-> generate(raw)]

\* hybrid.generate_hybrid: (result.get("response") or "")[:200] is a
\* TypeError for a response that is neither falsy nor a string
Sliceable(r) == Falsy(r.response) \/ r.response.t = "str"

\* every (file, i, chunk) analyze_case can meet
WorkItems ==
  UNION {{Work(ScanFiles(FilesOf[c], 1), 1)[k] :
            k \in 1..TotalChunks(ScanFiles(FilesOf[c], 1))} : c \in CaseIds}

\* the case a file belongs to
CaseOf(f) == CHOOSE c \in CaseIds : \E i \in 1..Len(FilesOf[c]) : FilesOf[c][i] = f

\* _process_response for every response and chunk, computed once
ProcessTable ==
  [r \in {GenerateTable[raw] : raw \in RawOutputs} |->
     [w \in WorkItems |->
        _process_response(r.response, CaseOf(w.file_id), w.file_id, r.source,
                          w.chunk_index, w.chunk)]]

\* d[k] = v for a dict d
SetKey(d, k, v) == [x \in DOMAIN d \cup {k} |-> IF x = k THEN v ELSE d[x]]

\* get_progress
get_progress(c) ==
  IF c \in DOMAIN analysis_progress THEN analysis_progress[c]
  ELSE [total |-> 0, completed |-> 0, status |-> "idle"]

\* the rows add_finding inserts for the findings _process_response builds,
\* each with a fresh id
AddAll(fieldsList) ==
  [i \in 1..Len(fieldsList) |-> add_finding(fieldsList[i], next_id + i)]

(***************************************************************************)
(* The steps of one task.  api.py runs analyze_case as a background task   *)
(* of the request; a library caller (tests/run_examples.py) calls it with  *)
(* any id.  With serial, a run of a case starts only when no other run of  *)
(* that case is under way.  The locals of a run end with it.               *)
(***************************************************************************)
Running(c) == {t \in Tasks : pc[t] \notin Resting /\ case_id[t] = c}

Enter(t, c) ==
  /\ pc' = [pc EXCEPT ![t] = "get_case"]
  /\ case_id' = [case_id EXCEPT ![t] = c]
  /\ runs_started' = runs_started + 1
  /\ UNCHANGED << store, analysis_progress, generator, file_chunks, pos,
                  result, all_findings, pure >>

\* the run of task t ends: it returned or an exception left it
Leave(t, how) ==
  /\ pc' = [pc EXCEPT ![t] = how]
  /\ file_chunks' = [file_chunks EXCEPT ![t] = << >>]
  /\ pos' = [pos EXCEPT ![t] = 0]
  /\ result' = [result EXCEPT ![t] = NoResult]
  /\ all_findings' = [all_findings EXCEPT ![t] = << >>]
  /\ UNCHANGED << case_id, runs_started, pure >>

\* POST /api/cases/{case_id}/analyze: 404 and 400 start nothing
analyze_endpoint(t, c, serial) ==
  /\ pc[t] \in Resting
  /\ runs_started < MaxRuns
  /\ serial => Running(c) = {}
  /\ get_case(c).found
  /\ get_case(c).files # << >>
  /\ Enter(t, c)

\* analyze_case(case_id) called as a library function
call_analyze_case(t, c, serial) ==
  /\ pc[t] \in Resting
  /\ runs_started < MaxRuns
  /\ serial => Running(c) = {}
  /\ Enter(t, c)

\* case = get_case(case_id); if not case: raise ValueError
get_case_step(t) ==
  /\ pc[t] = "get_case"
  /\ IF get_case(case_id[t]).found
       THEN /\ pc' = [pc EXCEPT ![t] = "clear"]
            /\ UNCHANGED << locals, runs_started, pure >>
       ELSE Leave(t, "raised")
  /\ UNCHANGED << store, analysis_progress, generator >>

\* clear_findings(case_id)
clear_step(t) ==
  /\ pc[t] = "clear"
  /\ findings' = clear_findings(case_id[t])
  /\ pc' = [pc EXCEPT ![t] = "set_analyzing"]
  /\ UNCHANGED << cases, next_id, analysis_progress, generator, locals,
                  runs_started, pure >>

\* update_case(case_id, status="analyzing")
set_analyzing_step(t) ==
  /\ pc[t] = "set_analyzing"
  /\ cases' = update_case(case_id[t], [status |-> "analyzing"])
  /\ pc' = [pc EXCEPT ![t] = "scan"]
  /\ UNCHANGED << findings, next_id, analysis_progress, generator, locals,
                  runs_started, pure >>

\* where the loop goes after n chunks: the next call or the end
LoopPc(fc, n) == IF n < TotalChunks(fc) THEN "reset" ELSE "finish"

\* analysis_progress[case_id] = {...} for the file_chunks fc just built
set_progress(t, fc) ==
  /\ file_chunks' = [file_chunks EXCEPT ![t] = fc]
  /\ analysis_progress' =
       SetKey(analysis_progress, case_id[t],
              [total |-> TotalChunks(fc), completed |-> 0,
               status |-> "analyzing"])
  /\ pc' = [pc EXCEPT ![t] = LoopPc(fc, 0)]

\* the loop over case.files, then analysis_progress[case_id] = {...}
scan_step(t) ==
  /\ pc[t] = "scan"
  /\ set_progress(t, ScanFiles(get_case(case_id[t]).files, 1))
  /\ UNCHANGED << store, generator, case_id, pos, result, all_findings,
                  runs_started, pure >>

\* hybrid.generate: reset_model(), which clears the cache of a loaded model
reset_model_step(t) ==
  /\ pc[t] = "reset"
  /\ kv_cache' = IF _model # "None" THEN {} ELSE kv_cache
  /\ pc' = [pc EXCEPT ![t] = "complete"]
  /\ UNCHANGED << store, analysis_progress, _model, weights, in_call, locals,
                  runs_started, pure >>

\* inference.complete: get_model() raises RuntimeError without weights
get_model_raise(t) ==
  /\ pc[t] = "complete"
  /\ _model = "None" /\ ~weights
  /\ Leave(t, "aborted")
  /\ UNCHANGED << store, analysis_progress, generator >>

\* inference.complete: get_model() (cactus_init on the first call), then
\* cactus_complete starts on the shared handle
complete_begin(t) ==
  /\ pc[t] = "complete"
  /\ _model # "None" \/ weights
  /\ _model' = "handle"
  /\ kv_cache' = kv_cache \cup {t}
  /\ in_call' = in_call \cup {t}
  /\ pc' = [pc EXCEPT ![t] = "in_call"]
  /\ UNCHANGED << store, analysis_progress, weights, locals, runs_started, pure >>

\* cactus_complete returns a text; generate_hybrid returns the dict, or its
\* slice of the response raises
generate_hybrid(t, r) ==
  IF Sliceable(r)
    THEN /\ result' = [result EXCEPT ![t] = r]
         /\ pc' = [pc EXCEPT ![t] = "process"]
         /\ UNCHANGED << case_id, file_chunks, pos, all_findings,
                         runs_started, pure >>
    ELSE Leave(t, "aborted")

complete_return(t, raw) ==
  /\ pc[t] = "in_call"
  /\ in_call' = in_call \ {t}
  /\ generate_hybrid(t, GenerateTable[raw])
  /\ UNCHANGED << store, analysis_progress, _model, weights, kv_cache >>

\* C7 sensitivity: a handler that marks the progress record on the way out
complete_raise_marks_failed(t) ==
  /\ pc[t] = "in_call"
  /\ in_call' = in_call \ {t}
  /\ Leave(t, "aborted")
  /\ analysis_progress' =
       [analysis_progress EXCEPT ![case_id[t]].status = "failed"]
  /\ UNCHANGED << store, _model, weights, kv_cache >>

\* cactus_complete fails: the exception leaves analyze_case
complete_raise(t) ==
  /\ pc[t] = "in_call"
  /\ in_call' = in_call \ {t}
  /\ Leave(t, "aborted")
  /\ UNCHANGED << store, analysis_progress, _model, weights, kv_cache >>

\* the chunk the loop is at
Current(t) == Work(file_chunks[t], 1)[pos[t] + 1]

\* the rows add_finding inserted; all_findings.extend(findings)
extend(t, rows) ==
  /\ findings' = findings \o rows
  /\ next_id' = next_id + Len(rows)
  /\ all_findings' = [all_findings EXCEPT ![t] = @ \o rows]
  /\ pc' = [pc EXCEPT ![t] = "inc"]
  /\ UNCHANGED << case_id, file_chunks, pos, result, runs_started, pure >>

\* what _process_response made of the response: its exception leaves
\* analyze_case, its findings are stored
processed(t, out) ==
  IF out.error # "" \/ (out.findings # << >> /\ case_id[t] \notin DOMAIN cases)
    THEN Leave(t, "aborted") /\ UNCHANGED << findings, next_id >>
    ELSE extend(t, AddAll(out.findings))

\* findings = _process_response(...); all_findings.extend(findings)
process_step(t) ==
  /\ pc[t] = "process"
  /\ processed(t, ProcessTable[result[t]][Current(t)])
  /\ UNCHANGED << cases, analysis_progress, generator >>

\* C3 sensitivity: the loop going on without counting the chunk
inc_step_uncounted(t) ==
  /\ pc[t] = "inc"
  /\ pos' = [pos EXCEPT ![t] = @ + 1]
  /\ pc' = [pc EXCEPT ![t] = LoopPc(file_chunks[t], pos[t] + 1)]
  /\ UNCHANGED << store, analysis_progress, generator, case_id, file_chunks,
                  result, all_findings, runs_started, pure >>

\* analysis_progress[case_id]["completed"] += 1
inc_step(t) ==
  /\ pc[t] = "inc"
  /\ analysis_progress' =
       [analysis_progress EXCEPT ![case_id[t]].completed = @ + 1]
  /\ pos' = [pos EXCEPT ![t] = @ + 1]
  /\ pc' = [pc EXCEPT ![t] = LoopPc(file_chunks[t], pos[t] + 1)]
  /\ UNCHANGED << store, generator, case_id, file_chunks, result,
                  all_findings, runs_started, pure >>

\* C10 sensitivity: the label computed from every finding in the store
finish_step_store_wide(t) ==
  /\ pc[t] = "finish"
  /\ cases' = update_case(case_id[t],
                          [status |-> "complete",
                           risk_level |-> _compute_risk_level(findings)])
  /\ pc' = [pc EXCEPT ![t] = "set_complete"]
  /\ UNCHANGED << findings, next_id, analysis_progress, generator, locals,
                  runs_started, pure >>

\* risk = _compute_risk_level(all_findings); update_case(status, risk_level)
finish_step(t) ==
  /\ pc[t] = "finish"
  /\ cases' = update_case(case_id[t],
                          [status |-> "complete",
                           risk_level |-> _compute_risk_level(all_findings[t])])
  /\ pc' = [pc EXCEPT ![t] = "set_complete"]
  /\ UNCHANGED << findings, next_id, analysis_progress, generator, locals,
                  runs_started, pure >>

\* analysis_progress[case_id]["status"] = "complete"; return all_findings
set_complete_step(t) ==
  /\ pc[t] = "set_complete"
  /\ analysis_progress' =
       [analysis_progress EXCEPT ![case_id[t]].status = "complete"]
  /\ Leave(t, "returned")
  /\ UNCHANGED << store, generator >>

\* every step of analyze_case but its start
Step(t) ==
  \/ get_case_step(t)
  \/ clear_step(t)
  \/ set_analyzing_step(t)
  \/ scan_step(t)
  \/ reset_model_step(t)
  \/ get_model_raise(t)
  \/ complete_begin(t)
  \/ \E raw \in RawOutputs : complete_return(t, raw)
  \/ complete_raise(t)
  \/ process_step(t)
  \/ inc_step(t)
  \/ finish_step(t)
  \/ set_complete_step(t)

\* the program: any task starts a run of any case at any time
Next ==
  \E t \in Tasks :
    \/ \E c \in CaseIds : analyze_endpoint(t, c, FALSE)
    \/ \E c \in AllIds : call_analyze_case(t, c, FALSE)
    \/ Step(t)

Spec == Init /\ [][Next]_vars

\* the runs of one case do not overlap
NextSerial ==
  \E t \in Tasks :
    \/ \E c \in CaseIds : analyze_endpoint(t, c, TRUE)
    \/ \E c \in AllIds : call_analyze_case(t, c, TRUE)
    \/ Step(t)

SpecSerial == Init /\ [][NextSerial]_vars

(***************************************************************************)
(* report.py: the four pillars, _score_pillar and _stim_risk_rating.  The  *)
(* patterns are compiled with re.IGNORECASE and written here in lower      *)
(* case.  round() is Python's, halves to the even neighbour.  The raw      *)
(* score is a float sum of weight * (1 + hits * 0.3); it is kept here in   *)
(* exact tenths.  The float sum is within 1e-12 of the exact sum, so       *)
(* round(raw_score) is the one nearest integer, except where the exact sum *)
(* is a half (x.5): there the float sum may be x.5 or fall just to either  *)
(* side of it, by the order of the additions, and round() gives either     *)
(* neighbour.  _score_pillar is therefore the set of its possible returns. *)
(***************************************************************************)
STIM_PILLARS ==
  << [short |-> "Vulnerability",
      keywords |->
        << Word("trust me"), Word("only one"), Word("special"), Word("promise"),
           Pre("opportunit"), Pre("flatter"), Pre("groom"), Word("love"),
           Word("care about"), Word("chosen"), Word("deserve"),
           Word("beautiful"), Pre("talent"), Word("potential"),
           Word("mentorship"), Word("mentor"), Word("protect"),
           Word("stunning"), Pre("network"), Word("exclusive"),
           P("word_dot", {"high"}, {"value"}), Word("career"), Pre("model"),
           Pre("vulnerab"), Pre("manipulat"), Pre("exploit") >>,
      categories |-> {ABUSE, PATTERN}],
     [short |-> "Control",
      keywords |->
        << Word("control"), Pre("demand"), Pre("instruct"), Word("order"),
           Word("must"), Word("have to"), Word("passport"), Word("travel"),
           Word("permission"), Pre("restrict"), Pre("cooperat"), Word("obey"),
           Word("do as"), P("then", {"follow"}, {"instruct"}),
           Word("don't question"),
           Word("confidential"), Word("secret"), Word("encrypted") >>,
      categories |-> {THREAT, ABUSE}],
     [short |-> "Isolation",
      keywords |->
        << Pre("isolat"), P("word", {"don't tell", "dont tell"}, {}),
           Word("delete"), Pre("secre"),
           P("then", {"no one"}, {"understand"}), Word("only i"),
           Word("family"), Word("friends"), Word("alone"), Word("no contact"),
           Word("cut off"), Pre("gaslight"), Pre("roommate"),
           P("word", {"don't talk", "dont talk"}, {}), Word("stay away"),
           Word("trust") >>,
      categories |-> {ABUSE, PATTERN}],
     [short |-> "Financial",
      keywords |->
        << Word("debt"), Word("owe"), Word("money"), Word("pay"),
           Word("wire"), Pre("invest"), Pre("fund"), Word("fee"),
           Word("financial"), Pre("expens"), Word("cost"),
           Word("pocket"), Word("transfer"), Word("account"),
           Word("salary"), Pre("withhold"), Word("trap") >>,
      categories |-> {SCAM, THREAT}] >>

_SEVERITY_WEIGHT ==
  [sev \in Severity |->
     CASE sev = LOW -> 1 [] sev = MEDIUM -> 2 [] sev = HIGH -> 4
       [] sev = CRITICAL -> 6]

\* round(num / den) for num >= 0, den > 0
round(num, den) ==
  IF 2 * (num % den) < den THEN num \div den
  ELSE IF 2 * (num % den) > den THEN (num \div den) + 1
  ELSE IF (num \div den) % 2 = 0 THEN num \div den
  ELSE (num \div den) + 1

\* kw_hits: the patterns of the pillar that match f"{f.quote} {f.explanation}"
CountHits(pillar, text) ==
  Cardinality({i \in 1..Len(pillar.keywords) :
                 re_search_ignorecase(pillar.keywords[i], text)})

\* the texts of the findings of a table of _process_response results
TextsOf(table) ==
  UNION {UNION {{table[r][w].findings[i].quote \o " "
                   \o table[r][w].findings[i].explanation :
                   i \in 1..Len(table[r][w].findings)} :
                w \in DOMAIN table[r]} : r \in DOMAIN table}

\* the text of every finding analyze_case can store
StoredTexts == TextsOf(ProcessTable)

\* kw_hits of every pillar for every text of texts
HitsOf(texts) ==
  [k \in 1..Len(STIM_PILLARS) |->
     [x \in texts |-> CountHits(STIM_PILLARS[k], x)]]

\* the same for every text analyze_case can store, computed once
KwHitsTable == HitsOf(StoredTexts)

\* the hits the table holds for a pillar and a text, counted for any other
Lookup(pillar, text, table) ==
  IF text \in DOMAIN table[1]
    THEN table[CHOOSE k \in 1..Len(STIM_PILLARS) :
                 STIM_PILLARS[k].short = pillar.short][text]
    ELSE CountHits(pillar, text)

\* kw_hits for f.quote + " " + f.explanation
KwHits(pillar, f) == Lookup(pillar, f.quote \o " " \o f.explanation, KwHitsTable)

\* kw_hits of each finding of the list
HitsSeq(pillar, the_findings) ==
  [i \in 1..Len(the_findings) |-> KwHits(pillar, the_findings[i])]

\* cat_match or kw_hits > 0
PillarMatch(pillar, f, kw_hits) == f.category \in pillar.categories \/ kw_hits > 0

\* raw_score, in tenths, over the findings from i on
RECURSIVE RawScore10(_, _, _, _)
RawScore10(pillar, the_findings, hits, i) ==
  IF i > Len(the_findings) THEN 0
  ELSE (IF PillarMatch(pillar, the_findings[i], hits[i])
          THEN _SEVERITY_WEIGHT[the_findings[i].severity] * (10 + 3 * hits[i])
          ELSE 0)
       + RawScore10(pillar, the_findings, hits, i + 1)

\* matched, over the findings from i on
RECURSIVE Matched(_, _, _, _)
Matched(pillar, the_findings, hits, i) ==
  IF i > Len(the_findings) THEN << >>
  ELSE (IF PillarMatch(pillar, the_findings[i], hits[i])
          THEN << the_findings[i] >> ELSE << >>)
       \o Matched(pillar, the_findings, hits, i + 1)

\* raw_score (in tenths) and matched when the loop has ended
ScoreLoop(pillar, the_findings, hits) ==
  << RawScore10(pillar, the_findings, hits, 1),
     Matched(pillar, the_findings, hits, 1) >>

\* round(raw_score) for a float raw_score whose exact value is n10 tenths
RoundFloat10(n10) ==
  IF n10 % 10 = 5 THEN {n10 \div 10, (n10 \div 10) + 1} ELSE {round(n10, 10)}

\* (round(raw_score), matched)
Uncapped(loop) == {<< r, loop[2] >> : r \in RoundFloat10(loop[1])}

\* (min(10, round(raw_score)), matched)
Capped(loop) == {<< Min(10, r), loop[2] >> : r \in RoundFloat10(loop[1])}

\* C19 sensitivity: the rounded sum without the cap
_score_pillar_uncapped(pillar, the_findings) ==
  Uncapped(ScoreLoop(pillar, the_findings, HitsSeq(pillar, the_findings)))

\* the (score, matched) pairs _score_pillar may return
_score_pillar(pillar, the_findings) ==
  Capped(ScoreLoop(pillar, the_findings, HitsSeq(pillar, the_findings)))

\* the sum of the scores from i on
RECURSIVE SumFrom(_, _)
SumFrom(scores, i) ==
  IF i > Len(scores) THEN 0 ELSE scores[i] + SumFrom(scores, i + 1)

\* the label of a percentage
RiskBand(pct) ==
  IF pct >= 70 THEN "CRITICAL RISK"
  ELSE IF pct >= 50 THEN "HIGH RISK"
  ELSE IF pct >= 30 THEN "MEDIUM RISK"
  ELSE "LOW RISK"

\* C20 sensitivity: the percentage of a total out of 50
_stim_risk_rating_of_50(pillar_scores) ==
  << RiskBand(Min(100, round(SumFrom(pillar_scores, 1) * 100, 50))),
     Min(100, round(SumFrom(pillar_scores, 1) * 100, 50)) >>

_stim_risk_rating(pillar_scores) ==
  << RiskBand(Min(100, round(SumFrom(pillar_scores, 1) * 100, 40))),
     Min(100, round(SumFrom(pillar_scores, 1) * 100, 40)) >>

(***************************************************************************)
(* report.py: the statistics, the summary, the key findings and the        *)
(* recommended actions of a report.                                        *)
(***************************************************************************)
\* the names of the cases
NameOf == [c \in CaseIds |-> IF c = "c1" THEN "Case One" ELSE "Case Two"]

\* the counts of _compute_stats that the report reads; local_ratio, which
\* nothing reads, is left out
_compute_stats(the_findings) ==
  [total_findings |-> Len(the_findings),
   severity |-> [s \in Severity |->
                   Cardinality({i \in 1..Len(the_findings) : the_findings[i].severity = s})],
   category |-> [c \in FindingCategory |->
                   Cardinality({i \in 1..Len(the_findings) : the_findings[i].category = c})]]

_generate_summary(name, files, stats, risk_label, risk_pct) ==
  IF stats.total_findings = 0
    THEN "Analysis of case \"" \o name \o "\" found no concerning indicators "
         \o "across " \o ToString(Len(files))
         \o " file(s). STIM probability: 0% (LOW RISK)."
    ELSE "Analysis of " \o ToString(Len(files)) \o " file(s) in case \"" \o name
         \o "\" identified " \o ToString(stats.total_findings)
         \o " indicator(s) of concern. STIM probability rating: "
         \o ToString(risk_pct) \o "% (" \o risk_label \o "). "
         \o "All analysis performed on-device."

_category_label(cat) ==
  CASE cat = THREAT -> "Threat / Intimidation"
    [] cat = SCAM -> "Financial Fraud / Scam"
    [] cat = ABUSE -> "Abuse / Control"
    [] cat = PATTERN -> "Behavioural Pattern"
    [] cat = COMMUNICATION -> "Communication Concern"
    [] cat = TIMELINE_EVENT -> "Timeline Event"

\* f.severity.value.upper()
SeverityUpper(s) ==
  CASE s = LOW -> "LOW" [] s = MEDIUM -> "MEDIUM" [] s = HIGH -> "HIGH"
    [] s = CRITICAL -> "CRITICAL"

\* section 3 of the rendered report from finding i on: for each finding
\* the heading (its label and risk; the pillars and the source file of the
\* heading are not modelled), the quote and an empty line
RECURSIVE FindingLines(_, _)
FindingLines(the_findings, i) ==
  IF i > Len(the_findings) THEN << >>
  ELSE << "**Finding " \o ToString(i) \o "** - "
            \o _category_label(the_findings[i].category)
            \o " | Risk: **" \o SeverityUpper(the_findings[i].severity) \o "**",
          "> \"" \o the_findings[i].quote \o "\"",
          "" >>
       \o FindingLines(the_findings, i + 1)

KeyFindings(the_findings) ==
  IF the_findings = << >> THEN << "No findings to report.", "" >>
  ELSE FindingLines(the_findings, 1)

ActionUrgent == "**URGENT:** Refer to law enforcement immediately. Evidence suggests imminent risk of harm or active exploitation."

ActionPreserveEvidence == "Preserve all original communications as digital evidence (do not modify or delete source files)."

ActionEscalate == "Escalate to a trained safeguarding professional or legal advisor for further assessment."

ActionPreservePotential == "Preserve all original communications as potential evidence."

ActionThreats == "Document all threats with timestamps and report to police. Consider emergency safeguarding measures."

ActionScam == "Report suspected financial fraud to Action Fraud (UK) or relevant financial crime authority. Advise victim to freeze any compromised accounts."

ActionAbuse == "Refer to specialist domestic abuse or exploitation support services (e.g., National Domestic Abuse Helpline, Modern Slavery Helpline)."

ActionMonitor == "Continue monitoring. No immediate escalation required based on current indicators."

ActionReanalyse == "Consider periodic re-analysis if new communications are received."

\* "lit" in text
InText(lit, text) == Find(text, lit, 1) # 0

\* the lines for the label
LabelActions(risk_label) ==
  IF InText("CRITICAL", risk_label) THEN << ActionUrgent, ActionPreserveEvidence >>
  ELSE IF InText("HIGH", risk_label) THEN << ActionEscalate, ActionPreservePotential >>
  ELSE << >>

\* the lines for the categories threat, scam and abuse
CategoryActions(stats) ==
  (IF stats.category[THREAT] > 0 THEN << ActionThreats >> ELSE << >>)
  \o (IF stats.category[SCAM] > 0 THEN << ActionScam >> ELSE << >>)
  \o (IF stats.category[ABUSE] > 0 THEN << ActionAbuse >> ELSE << >>)

\* C21 sensitivity: the default lines whenever no category has a line
_recommend_actions_no_category(stats, risk_label) ==
  IF CategoryActions(stats) = << >>
    THEN LabelActions(risk_label) \o << ActionMonitor, ActionReanalyse >>
    ELSE LabelActions(risk_label) \o CategoryActions(stats)

_recommend_actions(stats, risk_label) ==
  IF LabelActions(risk_label) \o CategoryActions(stats) = << >>
    THEN << ActionMonitor, ActionReanalyse >>
    ELSE LabelActions(risk_label) \o CategoryActions(stats)

(***************************************************************************)
(* api.py around the runs: a case is deleted, a report or the progress of  *)
(* a case is read, between any two steps of a run.  What a reader returned *)
(* is kept in fn_call and fn_ret until the response is sent, before the    *)
(* next step.  Here a run starts when no other run is under way; the       *)
(* overlapping runs are those of Spec and SpecSerial.                      *)
(***************************************************************************)
\* the Report of a case from its findings, statistics, pillar scores and
\* rating: the stored label, the summary, the key findings of the rendered
\* document and its recommended actions
ReportOf(c, files, the_findings, stats, ps, rating) ==
  [raised |-> FALSE, risk_level |-> cases[c].risk_level,
   total_findings |-> stats.total_findings,
   pillar_scores |-> ps, rating |-> rating,
   summary |-> _generate_summary(NameOf[c], files, stats, rating[1], rating[2]),
   key_findings |-> KeyFindings(the_findings),
   actions |-> _recommend_actions(stats, rating[1])]

\* the reports generate_report(c) may return: the stored label, the four
\* pillar scores of the case's stored findings and their rating
\* the loop over STIM_PILLARS from pillar k on: the lists of scores it may
\* give for the findings
RECURSIVE PillarScores(_, _)
PillarScores(the_findings, k) ==
  IF k > Len(STIM_PILLARS) THEN {<< >>}
  ELSE {<< s[1] >> \o rest :
          s \in _score_pillar(STIM_PILLARS[k], the_findings),
          rest \in PillarScores(the_findings, k + 1)}

\* C22 sensitivity: a generate_report that fails for a case without findings
generate_report_needs_findings(c) ==
  IF ~get_case(c).found \/ list_findings(c) = << >>
    THEN {NoReport}
    ELSE {ReportOf(c, get_case(c).files, list_findings(c),
                   _compute_stats(list_findings(c)), ps, _stim_risk_rating(ps)) :
            ps \in PillarScores(list_findings(c), 1)}

generate_report(c) ==
  IF ~get_case(c).found
    THEN {NoReport}
    ELSE {ReportOf(c, get_case(c).files, list_findings(c),
                   _compute_stats(list_findings(c)), ps, _stim_risk_rating(ps)) :
            ps \in PillarScores(list_findings(c), 1)}

\* GET /api/cases/{case_id}/report
report_endpoint(c) ==
  /\ fn_call.fn = "none"
  /\ \E rep \in generate_report(c) :
       fn_ret' = [NoRet EXCEPT !.done = TRUE, !.report = rep]
  /\ fn_call' = [NoCall EXCEPT !.fn = "generate_report", !.id = c]
  /\ UNCHANGED << store, analysis_progress, generator, pc, locals,
                  runs_started >>

\* GET /api/cases/{case_id}/progress
progress_endpoint(c) ==
  /\ fn_call.fn = "none"
  /\ fn_ret' = [NoRet EXCEPT !.done = TRUE, !.progress = get_progress(c)]
  /\ fn_call' = [NoCall EXCEPT !.fn = "get_progress", !.id = c]
  /\ UNCHANGED << store, analysis_progress, generator, pc, locals,
                  runs_started >>

\* delete_case: DELETE FROM cases WHERE id = c, the findings of the case
\* going with it (ON DELETE CASCADE, foreign_keys=ON)
delete_case(c) ==
  /\ cases' = [x \in DOMAIN cases \ {c} |-> cases[x]]
  /\ findings' = SelectSeq(findings, LAMBDA f : f.case_id # c)
  /\ UNCHANGED next_id

\* DELETE /api/cases/{case_id}: 404 for a case that is not there
delete_case_endpoint(c) ==
  /\ fn_call.fn = "none"
  /\ c \in DOMAIN cases
  /\ delete_case(c)
  /\ UNCHANGED << analysis_progress, generator, pc, locals, runs_started,
                  pure >>

\* the response of a reader is sent
respond ==
  /\ fn_call.fn # "none"
  /\ fn_call' = NoCall
  /\ fn_ret' = NoRet
  /\ UNCHANGED << store, analysis_progress, generator, pc, locals,
                  runs_started >>

\* no run is under way and no response is to be sent
AllResting == fn_call.fn = "none" /\ \A u \in Tasks : pc[u] \in Resting

NextApi ==
  \/ \E t \in Tasks :
       \/ \E c \in CaseIds : AllResting /\ analyze_endpoint(t, c, TRUE)
       \/ \E c \in AllIds : AllResting /\ call_analyze_case(t, c, TRUE)
       \/ fn_call.fn = "none" /\ Step(t)
  \/ respond
  \/ \E c \in AllIds : report_endpoint(c)
  \/ \E c \in AllIds : progress_endpoint(c)
  \/ \E c \in CaseIds : delete_case_endpoint(c)

SpecApi == Init /\ [][NextApi]_vars

(***************************************************************************)
(* The functions applied on their own: the arguments are drawn at the      *)
(* start, one step applies the function.                                   *)
(***************************************************************************)
\* the lists of at most MaxFindings findings, of every severity
FindingLists ==
  UNION {[1..n -> {[severity |-> s] : s \in Severity}] : n \in 0..MaxFindings}

\* a parsed file of n messages, each with a text of its own
Numbered(n) == [i \in 1..n |-> Msg("a", "line " \o ToString(i))]

\* the message lists _chunk_messages is applied to on its own
MessageLists == {Numbered(n) : n \in 0..MaxMessages}

\* the texts _classify_by_keywords is applied to on its own
ClassifyTexts ==
  {"", "The weather is nice today.",
   "He made a threat about money.",
   "This is a scam to control her.",
   "A pattern of abuse.",
   "a recurring cycle",
   "a pattern of control, a wire fraud and then a threat",
   "THREAT OF VIOLENCE",
   "harmful and moneyed",
   "a minor issue",
   "a minor but severe issue",
   "No concern here, a normal chat.",
   "wire fraud, an imminent danger",
   "It was mild; he will escalate."}

\* findings as _score_pillar reads them: a tie maker for the Financial
\* pillar (five triggers, LOW, matched by its triggers alone), a CRITICAL
\* one matched by category, one with triggers of two pillars, and one that
\* no pillar matches
ScoreFindings ==
  {[category |-> COMMUNICATION, severity |-> LOW,
    quote |-> "debt owe money", explanation |-> "pay by wire"],
   [category |-> SCAM, severity |-> CRITICAL,
    quote |-> "x", explanation |-> "y"],
   [category |-> PATTERN, severity |-> LOW,
    quote |-> "a fee", explanation |-> "He must obey."],
   [category |-> COMMUNICATION, severity |-> MEDIUM,
    quote |-> "hello", explanation |-> "nothing here"]}

\* the finding lists _score_pillar is applied to on its own: every short
\* list, and long lists of one CRITICAL finding
ScoreLists ==
  UNION {[1..n -> ScoreFindings] : n \in 0..MaxScoreLen}
  \cup {[i \in 1..n |-> [category |-> SCAM, severity |-> CRITICAL,
                          quote |-> "x", explanation |-> "y"]] :
          n \in ManyMatching..(ManyMatching + 1)}

\* the highest score _score_pillar gives a pillar
MaxScore == 10

\* the score lists generate_report can hand to _stim_risk_rating: one score
\* of 0..MaxScore for each pillar
PillarScoreLists == [1..Len(STIM_PILLARS) -> 0..MaxScore]

\* a chunk of two messages, the only chunk of the only file of a case
TwoMessageChunk ==
  << Msg("A", "I will hurt you if you tell anyone"),
     Msg("A", "please don't say anything to the police") >>

\* generator texts for that chunk: with threat and isolat as words, in
\* either order and in upper case, behind a reasoning trace and markup,
\* with threat inside a word only, with a no-concern phrase, and too short
ChunkResponses ==
  { Str("The sender makes a threat to isolate the victim."),
    Str("This isolates her. It is a THREAT."),
    Str("<think>no concern</think>The sender makes a threat to isolate the victim."),
    Str("## Summary\n**The sender** makes a threat to isolate the victim."),
    Str("The sender is not unthreatening and isolates the victim."),
    Str("No concern here, no threat and no isolation."),
    Str("threat, isolat") }

\* n characters: "go " over and over
RECURSIVE Filler(_)
Filler(n) ==
  IF n = 0 THEN ""
  ELSE IF n = 1 THEN "g"
  ELSE IF n = 2 THEN "go"
  ELSE IF n = 3 THEN "go "
  ELSE Filler(3 * (((n \div 3) + 1) \div 2)) \o Filler(n - 3 * (((n \div 3) + 1) \div 2))

\* sentences i..n of a generator text, each with a key of its own
RECURSIVE Sentences(_, _)
Sentences(i, n) ==
  IF i > n THEN ""
  ELSE "Item " \o ToString(i) \o " shows that he keeps her passport from her."
       \o (IF i < n THEN " " ELSE "") \o Sentences(i + 1, n)

\* chunks with a message of more than 300 characters, alone and after a
\* message that scores, and with one of just under 300
LongChunks ==
  { << Msg("A", Filler(LongMessageLen)) >>,
    << Msg("A", "give me your passport"), Msg("B", Filler(LongMessageLen)) >>,
    << Msg("A", "passport " \o Filler(LongMessageLen)) >>,
    << Msg("A", Filler(LongMessageLen - 2)) >> }

\* the chunks analyze_one_chunk is applied to
OneChunks == {TwoMessageChunk} \cup LongChunks

\* generator texts of more than 500 cleaned characters, and short ones
LongResponses ==
  { Str(Sentences(1, ManySentences)),
    Str("## Report\n" \o Sentences(1, ManySentences + 1)),
    Str("Item 1 shows that he keeps her passport.") }

\* n spaces
RECURSIVE Spaces(_)
Spaces(n) ==
  IF n = 0 THEN ""
  ELSE IF n = 1 THEN " "
  ELSE Spaces(n \div 2) \o Spaces(n - (n \div 2))

\* message texts a quote is selected from: a blank one, ones no trigger
\* pattern matches, ones that one or two patterns match, a long one, and
\* one that begins with a long run of spaces
QuoteTexts ==
  { "", "hello there", "Send the money, it is URGENT",
    "give me your passport", "do not tell the police",
    Filler(LongMessageLen), Spaces(LongMessageLen) \o "help" }

QuoteChunks ==
  UNION {[1..n -> {Msg("A", x) : x \in QuoteTexts}] : n \in 0..MaxQuoteChunk}

\* sentences with the same key: other letter case, and a long sentence
\* that differs from another after its first 60 characters
SentencePool ==
  { "He lies.", "HE LIES.",
    "He controls her money and her papers and all of her time and her phone.",
    "He controls her money and her papers and all of her time and her visits." }

JoinAll(parts) == Join(parts, 1)

\* the texts _clean_response is applied to: plain sentences one space
\* apart, a sentence five times over, alone and among others, and texts
\* whose kept sentences are longer than 500 characters together
CleanTexts ==
  {JoinAll(ss) : ss \in UNION {[1..n -> SentencePool] : n \in 0..MaxSentencesIn}}
  \cup
  { RepeatedText,
    "He lies. Stop! He lies. Go on. He lies. He lies. Stop! He lies.",
    "He lies. He lies. " \o Filler(472) \o ". He lies.again soon.",
    "He lies. Stop! He lies. " \o Filler(466) \o ". He lies.again soon. He lies. He lies. He lies.",
    Sentences(1, ManySentences) }

\* the labels _stim_risk_rating gives
RiskLabels == {"CRITICAL RISK", "HIGH RISK", "MEDIUM RISK", "LOW RISK"}

\* lists of findings of every category
ActionLists ==
  UNION {[1..n -> {[category |-> c, severity |-> MEDIUM, quote |-> "x",
                    explanation |-> "y"] : c \in FindingCategory}] :
           n \in 0..MaxActionLen}

PureCalls ==
  {[NoCall EXCEPT !.fn = "_compute_risk_level", !.the_findings = fl] :
     fl \in FindingLists}
  \cup
  {[NoCall EXCEPT !.fn = "_process_response", !.response_text = r,
                  !.work = w] : r \in Responses, w \in WorkItems}
  \cup
  {[NoCall EXCEPT !.fn = "analyze_one_chunk", !.response_text = r,
                  !.work = [file_id |-> "f1", chunk_index |-> 0,
                            chunk |-> ch]] :
     r \in ChunkResponses \cup LongResponses, ch \in OneChunks}
  \cup
  {[NoCall EXCEPT !.fn = "_select_concerning_quote", !.messages = ch] :
     ch \in QuoteChunks}
  \cup
  {[NoCall EXCEPT !.fn = "_clean_response", !.text = x] : x \in CleanTexts}
  \cup
  {[NoCall EXCEPT !.fn = "_recommend_actions", !.the_findings = fl,
                  !.text = lab] : fl \in ActionLists, lab \in RiskLabels}
  \cup
  {[NoCall EXCEPT !.fn = "_chunk_messages", !.messages = ml] :
     ml \in MessageLists}
  \cup
  {[NoCall EXCEPT !.fn = "_classify_by_keywords", !.text = x] :
     x \in ClassifyTexts}
  \cup
  {[NoCall EXCEPT !.fn = "_score_pillar", !.pillar = k, !.the_findings = fl] :
     k \in 1..Len(STIM_PILLARS), fl \in ScoreLists}
  \cup
  {[NoCall EXCEPT !.fn = "_stim_risk_rating", !.pillar_scores = ps] :
     ps \in PillarScoreLists}

InitPure ==
  /\ Quiet
  /\ weights = FALSE
  /\ fn_call \in PureCalls
  /\ fn_ret = NoRet

apply_compute_risk_level ==
  /\ fn_call.fn = "_compute_risk_level"
  /\ ~fn_ret.done
  /\ fn_ret' = [fn_ret EXCEPT !.done = TRUE,
                              !.risk = _compute_risk_level(fn_call.the_findings)]
  /\ UNCHANGED << store, analysis_progress, generator, pc, locals,
                  runs_started, fn_call >>

apply_process_response ==
  /\ fn_call.fn = "_process_response"
  /\ ~fn_ret.done
  /\ fn_ret' =
       [fn_ret EXCEPT
          !.done = TRUE,
          !.out = _process_response(fn_call.response_text,
                                    CaseOf(fn_call.work.file_id),
                                    fn_call.work.file_id, "local",
                                    fn_call.work.chunk_index,
                                    fn_call.work.chunk)]
  /\ UNCHANGED << store, analysis_progress, generator, pc, locals,
                  runs_started, fn_call >>

\* analyze_case from the response of the generator on, for a case of one
\* chunk: findings = _process_response(...), all_findings.extend(findings),
\* risk = _compute_risk_level(all_findings)
analyze_one_chunk(response_text, work) ==
  LET out == _process_response(response_text, CaseOf(work.file_id),
                               work.file_id, "local", work.chunk_index,
                               work.chunk)
  IN  << out, _compute_risk_level(out.findings) >>

apply_analyze_one_chunk ==
  /\ fn_call.fn = "analyze_one_chunk"
  /\ ~fn_ret.done
  /\ fn_ret' =
       [fn_ret EXCEPT
          !.done = TRUE,
          !.out = analyze_one_chunk(fn_call.response_text, fn_call.work)[1],
          !.risk = analyze_one_chunk(fn_call.response_text, fn_call.work)[2]]
  /\ UNCHANGED << store, analysis_progress, generator, pc, locals,
                  runs_started, fn_call >>

apply_chunk_messages ==
  /\ fn_call.fn = "_chunk_messages"
  /\ ~fn_ret.done
  /\ fn_ret' = [fn_ret EXCEPT !.done = TRUE,
                              !.chunks = _chunk_messages(fn_call.messages)]
  /\ UNCHANGED << store, analysis_progress, generator, pc, locals,
                  runs_started, fn_call >>

apply_select_concerning_quote ==
  /\ fn_call.fn = "_select_concerning_quote"
  /\ ~fn_ret.done
  /\ fn_ret' = [fn_ret EXCEPT !.done = TRUE,
                              !.quote = _select_concerning_quote(fn_call.messages)]
  /\ UNCHANGED << store, analysis_progress, generator, pc, locals,
                  runs_started, fn_call >>

apply_clean_response ==
  /\ fn_call.fn = "_clean_response"
  /\ ~fn_ret.done
  /\ fn_ret' = [fn_ret EXCEPT !.done = TRUE,
                              !.cleaned = _clean_response(fn_call.text)]
  /\ UNCHANGED << store, analysis_progress, generator, pc, locals,
                  runs_started, fn_call >>

apply_recommend_actions ==
  /\ fn_call.fn = "_recommend_actions"
  /\ ~fn_ret.done
  /\ fn_ret' = [fn_ret EXCEPT
                  !.done = TRUE,
                  !.actions = _recommend_actions(_compute_stats(fn_call.the_findings),
                                                 fn_call.text)]
  /\ UNCHANGED << store, analysis_progress, generator, pc, locals,
                  runs_started, fn_call >>

apply_classify_by_keywords ==
  /\ fn_call.fn = "_classify_by_keywords"
  /\ ~fn_ret.done
  /\ fn_ret' = [fn_ret EXCEPT !.done = TRUE,
                              !.classified = _classify_by_keywords(fn_call.text)]
  /\ UNCHANGED << store, analysis_progress, generator, pc, locals,
                  runs_started, fn_call >>

apply_score_pillar ==
  /\ fn_call.fn = "_score_pillar"
  /\ ~fn_ret.done
  /\ \E ret \in _score_pillar(STIM_PILLARS[fn_call.pillar], fn_call.the_findings) :
       fn_ret' = [fn_ret EXCEPT !.done = TRUE, !.scored = ret]
  /\ UNCHANGED << store, analysis_progress, generator, pc, locals,
                  runs_started, fn_call >>

apply_stim_risk_rating ==
  /\ fn_call.fn = "_stim_risk_rating"
  /\ ~fn_ret.done
  /\ fn_ret' = [fn_ret EXCEPT !.done = TRUE,
                              !.rating = _stim_risk_rating(fn_call.pillar_scores)]
  /\ UNCHANGED << store, analysis_progress, generator, pc, locals,
                  runs_started, fn_call >>

NextPure ==
  \/ apply_compute_risk_level
  \/ apply_process_response
  \/ apply_chunk_messages
  \/ apply_classify_by_keywords
  \/ apply_score_pillar
  \/ apply_stim_risk_rating
  \/ apply_analyze_one_chunk
  \/ apply_select_concerning_quote
  \/ apply_clean_response
  \/ apply_recommend_actions

SpecPure == InitPure /\ [][NextPure]_vars

(***************************************************************************)
(* The properties.                                                         *)
(***************************************************************************)
\* at least n findings of fl have severity sev
AtLeast(fl, sev, n) ==
  \E S \in SUBSET (1..Len(fl)) :
    Cardinality(S) = n /\ \A i \in S : fl[i].severity = sev

\* the label of the first rule of the cascade that matches
RiskRule(fl) ==
  IF fl = << >> THEN "low"
  ELSE IF AtLeast(fl, CRITICAL, 1) THEN "critical"
  ELSE IF AtLeast(fl, HIGH, 2) THEN "critical"
  ELSE IF AtLeast(fl, HIGH, 1) THEN "high"
  ELSE IF AtLeast(fl, MEDIUM, 3) THEN "high"
  ELSE IF AtLeast(fl, MEDIUM, 1) THEN "medium"
  ELSE "low"

\* C1: _compute_risk_level returns, for every list of findings, the label
\* of the first matching rule: empty -> low; a CRITICAL -> critical; two
\* HIGH -> critical; one HIGH -> high; three MEDIUM -> high; one MEDIUM ->
\* medium; otherwise low.
C1_RiskCascade ==
  (fn_call.fn = "_compute_risk_level" /\ fn_ret.done)
    => fn_ret.risk = RiskRule(fn_call.the_findings)

\* three MEDIUM findings and a LOW one were given, and "high" came back
C1_Witness ==
  /\ fn_call.fn = "_compute_risk_level"
  /\ fn_ret.done
  /\ Len(fn_call.the_findings) = 4
  /\ AtLeast(fn_call.the_findings, MEDIUM, 3)
  /\ AtLeast(fn_call.the_findings, LOW, 1)
  /\ fn_ret.risk = "high"

\* no two findings of fl are for the same (file, chunk index)
OnePerChunk(fl) ==
  \A i, j \in 1..Len(fl) :
    (fl[i].file_id = fl[j].file_id /\ fl[i].chunk_index = fl[j].chunk_index)
      => i = j

\* the places of analyze_case after clear_findings
AfterClear ==
  {"set_analyzing", "scan", "reset", "complete", "in_call", "process", "inc",
   "finish", "set_complete"}

\* C2: in a run of a case (no other run of it under way), once
\* clear_findings is done the store holds, for the case, exactly the
\* findings this run created, earlier runs' findings all gone before the
\* first chunk; and no (file, chunk index) has two stored findings.
C2_RerunClears ==
  /\ \A t \in Tasks :
       pc[t] \in AfterClear => list_findings(case_id[t]) = all_findings[t]
  /\ \A c \in CaseIds : OnePerChunk(list_findings(c))

\* a second run of a case, after the first returned, is at its end with
\* findings of its own, and findings were created before it
C2_Witness ==
  \E t \in Tasks : \E u \in Tasks \ {t} :
    /\ pc[u] = "returned" /\ case_id[u] = case_id[t]
    /\ pc[t] = "set_complete"
    /\ all_findings[t] # << >>
    /\ all_findings[t][1].id > 1
    /\ list_findings(case_id[t]) = all_findings[t]

\* the number of chunks of the files, from file i on, that are on disk
RECURSIVE ChunkCount(_, _)
ChunkCount(files, i) ==
  IF i > Len(files) THEN 0
  ELSE (IF files[i] \in OnDisk
          THEN Len(_chunk_messages(MessagesOf[files[i]]))
          ELSE 0)
       + ChunkCount(files, i + 1)

\* the number of chunks over all files of each case
TotalOf == [c \in CaseIds |-> ChunkCount(FilesOf[c], 1)]

\* the places of analyze_case inside the loop over the chunks
InLoop == {"reset", "complete", "in_call", "process", "inc"}

\* the progress record of a running task's case is (chunks of the case,
\* chunks done, "analyzing"), and a "complete" record has completed = total
C3_Record ==
  /\ \A t \in Tasks :
       /\ pc[t] \in InLoop =>
            /\ analysis_progress[case_id[t]] =
                 [total |-> TotalOf[case_id[t]], completed |-> pos[t],
                  status |-> "analyzing"]
            /\ pos[t] < TotalOf[case_id[t]]
       /\ pc[t] \in {"finish", "set_complete"} =>
            analysis_progress[case_id[t]] =
              [total |-> TotalOf[case_id[t]], completed |-> TotalOf[case_id[t]],
               status |-> "analyzing"]
  /\ \A c \in DOMAIN analysis_progress :
       analysis_progress[c].status = "complete"
         => analysis_progress[c].completed = analysis_progress[c].total

\* what one step may do to the progress record of case c
C3_Change(c) ==
  /\ (c \in DOMAIN analysis_progress /\ c \notin DOMAIN analysis_progress') => FALSE
  /\ (c \in DOMAIN analysis_progress /\ c \in DOMAIN analysis_progress'
        /\ analysis_progress'[c] # analysis_progress[c]) =>
       \/ \E t \in Tasks :
            /\ pc[t] = "scan" /\ case_id[t] = c
            /\ analysis_progress'[c].completed = 0
            /\ analysis_progress'[c].status = "analyzing"
       \/ \E t \in Tasks :
            /\ pc[t] = "inc" /\ case_id[t] = c
            /\ analysis_progress'[c] =
                 [analysis_progress[c] EXCEPT !.completed = @ + 1]
       \/ \E t \in Tasks :
            /\ pc[t] = "set_complete" /\ case_id[t] = c
            /\ analysis_progress[c].status = "analyzing"
            /\ analysis_progress[c].completed = analysis_progress[c].total
            /\ analysis_progress'[c] =
                 [analysis_progress[c] EXCEPT !.status = "complete"]

\* the chunk a task has just processed is counted when it goes on
C3_Counted ==
  \A t \in Tasks :
    (pc[t] = "inc" /\ pc'[t] # "inc") =>
      analysis_progress'[case_id[t]].completed =
        analysis_progress[case_id[t]].completed + 1

\* C3: during a run the progress record is (number of chunks over all
\* files, chunks done, "analyzing"); completed rises by exactly 1 after
\* each chunk, finding or not, and never falls; the status becomes
\* "complete" once, when completed = total.
C3_Progress ==
  [][/\ C3_Record /\ C3_Record'
     /\ \A c \in CaseIds : C3_Change(c)
     /\ C3_Counted]_vars

\* both chunks of case c1 are counted, the record is complete, and only one
\* of the two chunks produced a finding
C3_Witness ==
  /\ "c1" \in DOMAIN analysis_progress
  /\ analysis_progress["c1"] = [total |-> 2, completed |-> 2, status |-> "complete"]
  /\ Len(list_findings("c1")) = 1

\* C4: _process_response creates no finding for an empty or whitespace
\* response, none for a cleaned text that is empty or shorter than 20
\* characters, none for a cleaned text with a no-concern phrase, and
\* otherwise exactly one, with the classifier's category and severity, the
\* selected quote, the cleaned text as explanation and the chunk's position
\* in its file's chunk sequence as chunk_index.
C4_OneOrNone ==
  (fn_call.fn = "_process_response" /\ fn_ret.done) =>
    LET text == fn_call.response_text.v
        w == fn_call.work
        out == fn_ret.out.findings
        cleaned == _clean_response(text)
        model == _classify_by_keywords(cleaned)
        conv == _classify_by_keywords(JoinTexts(w.chunk, 1))
        none == \/ strip(text) = ""
                \/ cleaned = "" \/ Len(cleaned) < 20
                \/ NoConcern(lower(cleaned))
    IN  /\ fn_ret.out.error = ""
        /\ none => out = << >>
        /\ ~none =>
             /\ Len(out) = 1
             /\ out[1].explanation = cleaned
             /\ out[1].quote = _select_concerning_quote(w.chunk)
             /\ out[1].category =
                  (IF model[1] # COMMUNICATION THEN model[1] ELSE conv[1])
             /\ out[1].severity \in {model[2], conv[2]}
             /\ SevIndex(out[1].severity) >= SevIndex(model[2])
             /\ SevIndex(out[1].severity) >= SevIndex(conv[2])
             /\ out[1].file_id = w.file_id
             /\ _chunk_messages(MessagesOf[w.file_id])[out[1].chunk_index + 1]
                  = w.chunk

\* a response of exactly 20 cleaned characters gave one finding, for the
\* second window of its file
C4_Witness ==
  /\ fn_call.fn = "_process_response"
  /\ fn_ret.done
  /\ fn_call.response_text = Str("12345678901234567890")
  /\ Len(fn_ret.out.findings) = 1
  /\ fn_ret.out.findings[1].chunk_index = 1

\* the outputs of the generator that are empty, not parseable as the result
\* object, or one sentence repeated
BadOutputs == {"", CrashText, Document(RepeatedText)}

\* C5: a chunk whose generator output is empty, malformed or degenerate
\* yields zero findings (and the run goes on).
C5_BadOutputNoFinding ==
  \A t \in Tasks :
    (pc[t] = "inc" /\ result[t] \in {GenerateTable[raw] : raw \in BadOutputs})
      => \A i \in 1..Len(all_findings[t]) :
           \/ all_findings[t][i].file_id # Current(t).file_id
           \/ all_findings[t][i].chunk_index # Current(t).chunk_index

\* what the tasks share: the store, the progress records, the generator
shared ==
  << cases, findings, next_id, analysis_progress, _model, kv_cache, in_call >>

\* C6: analyze_case with an id that is not in the store raises before it
\* changes anything: no finding deleted, no status or label written, no
\* progress record made or changed, no generation call.
C6_MissingCaseFails ==
  [][\A t \in Tasks :
       (case_id'[t] \notin DOMAIN cases /\ pc'[t] # pc[t]) =>
         /\ pc'[t] \in {"get_case", "raised"}
         /\ pc[t] = "get_case" => pc'[t] = "raised"
         /\ UNCHANGED shared]_vars

\* a call with the missing id has raised, with findings in the store and a
\* progress record that it left alone
C6_Witness ==
  \E t \in Tasks :
    /\ pc[t] = "raised" /\ case_id[t] = MissingId
    /\ findings # << >>
    /\ DOMAIN analysis_progress # {}
    /\ MissingId \notin DOMAIN analysis_progress

\* C7: when a run aborts part-way, the case status and the progress status
\* stay "analyzing" and completed stays at the chunks finished; while no
\* run of the case is under way and none is started, no step changes the
\* case or its progress record.
C7_AbortStaysAnalyzing ==
  [][/\ \A t \in Tasks :
          (pc'[t] = "aborted" /\ pc[t] # "aborted") =>
            /\ cases'[case_id[t]].status = "analyzing"
            /\ analysis_progress'[case_id[t]].status = "analyzing"
            /\ analysis_progress'[case_id[t]].completed = pos[t]
            /\ pos[t] < analysis_progress'[case_id[t]].total
     /\ \A c \in CaseIds :
          (Running(c) = {} /\ Running(c)' = {}) =>
            /\ cases'[c] = cases[c]
            /\ get_progress(c)' = get_progress(c)]_vars

\* a run of case c1 has aborted after one of its two chunks, and nothing
\* runs on the case
C7_Witness ==
  \E t \in Tasks :
    /\ pc[t] = "aborted" /\ case_id[t] = "c1"
    /\ Running("c1") = {}
    /\ cases["c1"].status = "analyzing"
    /\ "c1" \in DOMAIN analysis_progress
    /\ analysis_progress["c1"] =
         [total |-> 2, completed |-> 1, status |-> "analyzing"]

\* the place of file f among the files of case c
FilePos(c, f) == CHOOSE i \in 1..Len(FilesOf[c]) : FilesOf[c][i] = f

\* finding f comes before finding g in file order, then chunk index
Before(c, f, g) ==
  \/ FilePos(c, f.file_id) < FilePos(c, g.file_id)
  \/ f.file_id = g.file_id /\ f.chunk_index < g.chunk_index

\* C8: in a run the generation calls come one at a time, each after the
\* chunk before it is processed and its finding stored; the findings of a
\* case are stored in the order of its files and, within a file, in
\* strictly increasing chunk index.
C8_FindingOrder ==
  /\ \A t \in Tasks :
       pc[t] \in {"reset", "complete", "in_call", "process"} =>
         \A i \in 1..Len(all_findings[t]) :
           \E k \in 1..pos[t] :
             /\ Work(file_chunks[t], 1)[k].file_id = all_findings[t][i].file_id
             /\ Work(file_chunks[t], 1)[k].chunk_index
                  = all_findings[t][i].chunk_index
  /\ \A c \in CaseIds :
       \A i, j \in 1..Len(list_findings(c)) :
         i < j => /\ Before(c, list_findings(c)[i], list_findings(c)[j])
                  /\ list_findings(c)[i].id < list_findings(c)[j].id

\* case c2 holds a finding for each of its two files with messages, and
\* case c1 one for each window of its file
C8_Witness ==
  /\ Len(list_findings("c2")) = 2
  /\ list_findings("c2")[1].file_id = "f2"
  /\ list_findings("c2")[2].file_id = "f5"
  /\ Len(list_findings("c1")) = 2
  /\ list_findings("c1")[2].chunk_index = 1

\* C9: a generation call runs on session state that its own task's reset
\* cleared and that no other task's reset or call has touched since, also
\* with two cases analysed at the same time.
C9_CallOnOwnReset ==
  \A t \in Tasks : pc[t] = "in_call" => kv_cache = {t}

\* C10: the risk label of a case is written only in the update that sets
\* the status to "complete", after the last chunk, with the cascade of the
\* findings the run created; every other step leaves the label alone.
C10_LabelOnce ==
  [][\A c \in CaseIds :
       cases'[c] # cases[c] =>
         \/ /\ cases'[c].status = "analyzing"
            /\ cases'[c].risk_level = cases[c].risk_level
         \/ \E t \in Tasks :
              /\ pc[t] = "finish" /\ pc'[t] = "set_complete" /\ case_id[t] = c
              /\ pos[t] = TotalOf[c]
              /\ cases[c].status = "analyzing"
              /\ cases'[c] =
                   [status |-> "complete",
                    risk_level |-> RiskRule(all_findings[t])]]_vars

\* a second run of a case is processing a chunk while the case still has
\* the label the first run wrote
C10_Witness ==
  \E t \in Tasks :
    /\ pc[t] = "process"
    /\ cases[case_id[t]].status = "analyzing"
    /\ cases[case_id[t]].risk_level = "critical"

\* the place of a risk label in the order low < medium < high < critical
RiskIndex(label) ==
  CASE label = "low" -> 0 [] label = "medium" -> 1
    [] label = "high" -> 2 [] label = "critical" -> 3

\* the findings of fl in the order given by the permutation p of its indices
Reorder(fl, p) == [i \in 1..Len(fl) |-> fl[p[i]]]

\* severity sev is at least every severity of fl
AtLeastAll(fl, sev) ==
  \A i \in 1..Len(fl) : SevIndex(sev) >= SevIndex(fl[i].severity)

\* C11: the risk label is monotone: for a list L and a finding whose
\* severity is at least every severity of L, the label of L with the
\* finding appended is not lower than the label of L; and the label is the
\* same for every order of the findings of L.
C11_MonotoneAndOrderFree ==
  (fn_call.fn = "_compute_risk_level" /\ fn_ret.done) =>
    /\ \A sev \in Severity :
         AtLeastAll(fn_call.the_findings, sev) =>
           RiskIndex(_compute_risk_level(
                       Append(fn_call.the_findings, [severity |-> sev])))
             >= RiskIndex(fn_ret.risk)
    /\ \A p \in Permutations(1..Len(fn_call.the_findings)) :
         _compute_risk_level(Reorder(fn_call.the_findings, p)) = fn_ret.risk

\* the list MEDIUM, LOW, MEDIUM gave "medium"; one more MEDIUM lifts it to
\* "high", and the list in another order is a different list
C11_Witness ==
  /\ fn_call.fn = "_compute_risk_level"
  /\ fn_ret.done
  /\ fn_call.the_findings =
       << [severity |-> MEDIUM], [severity |-> LOW], [severity |-> MEDIUM] >>
  /\ fn_ret.risk = "medium"
  /\ _compute_risk_level(Append(fn_call.the_findings, [severity |-> MEDIUM]))
       = "high"

\* the 0-based starts 0, 5, 10, ... below n
Starts(n) == {i \in 0..(n - 1) : i % 5 = 0}

\* the k-th start, k from 1
StartOf(k) == 5 * (k - 1)

C13_OneWindowUpTo6 ==
  (fn_call.fn = "_chunk_messages" /\ fn_ret.done
     /\ Len(fn_call.messages) >= 1 /\ Len(fn_call.messages) <= 6) =>
    /\ Len(fn_ret.chunks) = 1
    /\ fn_ret.chunks[1] = fn_call.messages

\* a list of six messages gave two windows: all six, then the sixth alone
C13_SixGivesTwo ==
  /\ fn_call.fn = "_chunk_messages"
  /\ fn_ret.done
  /\ Len(fn_call.messages) = 6
  /\ fn_ret.chunks = << fn_call.messages, << fn_call.messages[6] >> >>

\* the messages of a window, as a set
Members(window) == {window[j] : j \in 1..Len(window)}

SetMatches(cat, text) ==
  \E i \in 1..Len(_CATEGORY_KEYWORDS) :
    /\ _CATEGORY_KEYWORDS[i][1] = cat
    /\ AnyMatch(_CATEGORY_KEYWORDS[i][2], lower(text))

\* C15: _classify_by_keywords gives the first category, in the order THREAT,
\* SCAM, ABUSE, PATTERN, whose trigger set has a match in the text, whatever
\* later sets match too, COMMUNICATION when none matches, and never
\* TIMELINE_EVENT.
C15_FirstCategoryWins ==
  (fn_call.fn = "_classify_by_keywords" /\ fn_ret.done) =>
    /\ fn_ret.classified[1] =
         (IF SetMatches(THREAT, fn_call.text) THEN THREAT
          ELSE IF SetMatches(SCAM, fn_call.text) THEN SCAM
          ELSE IF SetMatches(ABUSE, fn_call.text) THEN ABUSE
          ELSE IF SetMatches(PATTERN, fn_call.text) THEN PATTERN
          ELSE COMMUNICATION)
    /\ fn_ret.classified[1] # TIMELINE_EVENT

\* a text in which all four trigger sets match, the PATTERN trigger first
\* in the text and the THREAT trigger last, was classified THREAT
C15_Witness ==
  /\ fn_call.fn = "_classify_by_keywords"
  /\ fn_ret.done
  /\ fn_call.text = "a pattern of control, a wire fraud and then a threat"
  /\ \A cat \in {THREAT, SCAM, ABUSE, PATTERN} : SetMatches(cat, fn_call.text)
  /\ fn_ret.classified[1] = THREAT

\* a phrase for each high-severity trigger
HighPhrases ==
  {"critical", "severe", "danger", "imminent", "kill", "hurt", "violence",
   "extort", "blackmail", "immediately", "criminal"}

\* C16: _classify_by_keywords gives HIGH when a high-severity trigger
\* matches (a low-severity one matching too or not), LOW when none of the
\* high but one of the low triggers matches, MEDIUM otherwise, never
\* CRITICAL; so a text with a high-severity trigger phrase added is never
\* given a lower severity than the text without it.
C16_SeverityRule ==
  (fn_call.fn = "_classify_by_keywords" /\ fn_ret.done) =>
    /\ fn_ret.classified[2] =
         (IF AnyMatch(_SEVERITY_HIGH_KEYWORDS, lower(fn_call.text)) THEN HIGH
          ELSE IF AnyMatch(_SEVERITY_LOW_KEYWORDS, lower(fn_call.text)) THEN LOW
          ELSE MEDIUM)
    /\ fn_ret.classified[2] # CRITICAL
    /\ \A h \in HighPhrases :
         /\ _classify_by_keywords(fn_call.text \o " " \o h)[2] = HIGH
         /\ SevIndex(_classify_by_keywords(fn_call.text \o " " \o h)[2])
              >= SevIndex(fn_ret.classified[2])

\* a text with a low-severity and a high-severity trigger was given HIGH
C16_Witness ==
  /\ fn_call.fn = "_classify_by_keywords"
  /\ fn_ret.done
  /\ fn_call.text = "a minor but severe issue"
  /\ AnyMatch(_SEVERITY_LOW_KEYWORDS, lower(fn_call.text))
  /\ AnyMatch(_SEVERITY_HIGH_KEYWORDS, lower(fn_call.text))
  /\ fn_ret.classified[2] = HIGH

\* the cleaned texts of the generator's string responses
Explanations ==
  {_clean_response(GenerateTable[raw].response.v) :
     raw \in {x \in RawOutputs : GenerateTable[x].response.t = "str"}}

\* the classification of each cleaned generator text
ModelClass == [x \in Explanations |-> _classify_by_keywords(x)]

\* the classification of the concatenated messages of each chunk
ConvClass == [w \in WorkItems |-> _classify_by_keywords(JoinTexts(w.chunk, 1))]

\* the chunk a stored finding was made for
ItemOf(f) ==
  CHOOSE w \in WorkItems :
    w.file_id = f.file_id /\ w.chunk_index = f.chunk_index

\* C17: a stored finding's category is the one classified from the cleaned
\* generator text unless that is COMMUNICATION, and then the one classified
\* from the chunk's messages; its severity is the greater of the two
\* classified severities; so no stored finding is CRITICAL, and one is
\* COMMUNICATION only when both classifications are.
C17_CombinedClass ==
  \A i \in 1..Len(findings) :
    /\ findings[i].explanation \in Explanations
    /\ findings[i].category =
         (IF ModelClass[findings[i].explanation][1] # COMMUNICATION
            THEN ModelClass[findings[i].explanation][1]
            ELSE ConvClass[ItemOf(findings[i])][1])
    /\ findings[i].severity \in {ModelClass[findings[i].explanation][2],
                                 ConvClass[ItemOf(findings[i])][2]}
    /\ SevIndex(findings[i].severity)
         >= SevIndex(ModelClass[findings[i].explanation][2])
    /\ SevIndex(findings[i].severity)
         >= SevIndex(ConvClass[ItemOf(findings[i])][2])
    /\ findings[i].severity # CRITICAL
    /\ findings[i].category = COMMUNICATION =>
         /\ ModelClass[findings[i].explanation][1] = COMMUNICATION
         /\ ConvClass[ItemOf(findings[i])][1] = COMMUNICATION

\* the store holds a finding whose category came from the chunk's messages,
\* and one that is COMMUNICATION by both classifications with the severity
\* of the generator text, above the LOW of the chunk's messages
C17_Witness ==
  /\ \E i \in 1..Len(findings) :
       /\ ModelClass[findings[i].explanation][1] = COMMUNICATION
       /\ findings[i].category = THREAT
  /\ \E i \in 1..Len(findings) :
       /\ findings[i].category = COMMUNICATION
       /\ ConvClass[ItemOf(findings[i])][2] = LOW
       /\ findings[i].severity = HIGH

\* the stored finding with the id of f, in the next state
Kept(f) == \E j \in 1..Len(findings') : findings'[j].id = f.id

\* the case whose findings a step may remove: the one a run clears at its
\* start, or the one that is deleted
Removable(c) ==
  \/ \E t \in Tasks : /\ pc[t] = "clear"
                      /\ pc'[t] = "set_analyzing"
                      /\ case_id[t] = c
  \/ c \in DOMAIN cases /\ c \notin DOMAIN cases'

\* C18: no step changes a field of a stored finding; a finding is written
\* once, after those stored, and from then on its row stays as it is;
\* findings leave the store only all of one case together, at the start of
\* a new analysis of the case or when the case is deleted; generate_report
\* and get_progress change no finding, no case status or risk label.
C18_FindingsFrame ==
  [][ /\ \A i \in 1..Len(findings) :
           Kept(findings[i]) =>
             \E j \in 1..Len(findings') : findings'[j] = findings[i]
      /\ \A j \in 1..Len(findings') :
           \/ \E i \in 1..Len(findings) : findings[i] = findings'[j]
           \/ findings'[j].id > next_id
      /\ \A i \in 1..Len(findings) :
           ~Kept(findings[i]) =>
             /\ Removable(findings[i].case_id)
             /\ \A k \in 1..Len(findings) :
                  findings[k].case_id = findings[i].case_id => ~Kept(findings[k])
      /\ (fn_call' # fn_call \/ fn_ret' # fn_ret) =>
           /\ findings' = findings
           /\ cases' = cases
           /\ analysis_progress' = analysis_progress
    ]_vars

\* a report of a case with a stored finding was returned while a run of
\* another case stands before its first chunk, findings being in the store
C18_Witness ==
  /\ fn_call.fn = "generate_report"
  /\ fn_ret.done
  /\ ~fn_ret.report.raised
  /\ fn_ret.report.total_findings > 0
  /\ \E t \in Tasks : pc[t] \notin Resting
  /\ Len(findings) > 0

\* the exact sum S, in tenths, of severity_weight x (1 + 0.3 x triggers hit)
\* over the findings of fl that match the pillar
SumTenths(pillar, fl) ==
  LET Term(i) ==
        IF fl[i].category \in pillar.categories \/ KwHits(pillar, fl[i]) > 0
          THEN (CASE fl[i].severity = LOW -> 1 [] fl[i].severity = MEDIUM -> 2
                  [] fl[i].severity = HIGH -> 4 [] fl[i].severity = CRITICAL -> 6)
               * (10 + 3 * KwHits(pillar, fl[i]))
          ELSE 0
      Acc[i \in 0..Len(fl)] == IF i = 0 THEN 0 ELSE Acc[i - 1] + Term(i)
  IN  Acc[Len(fl)]

\* C19: _score_pillar returns min(10, r) with r the integer nearest the sum
\* S of severity_weight x (1 + 0.3 x triggers hit) over the matching
\* findings (either neighbour when S is an exact half), an integer in
\* 0..10 for every list, 20 or more matching CRITICAL findings included;
\* the list returned holds exactly the matching findings, in input order.
C19_PillarScore ==
  (fn_call.fn = "_score_pillar" /\ fn_ret.done) =>
    LET S10 == SumTenths(STIM_PILLARS[fn_call.pillar], fn_call.the_findings)
    IN  /\ fn_ret.scored[1] \in 0..10
        /\ \E r \in {S10 \div 10, (S10 \div 10) + 1} :
             /\ 10 * r - S10 <= 5
             /\ S10 - 10 * r <= 5
             /\ fn_ret.scored[1] = (IF r < 10 THEN r ELSE 10)
        /\ fn_ret.scored[2] =
             SelectSeq(fn_call.the_findings,
                       LAMBDA f : \/ f.category \in STIM_PILLARS[fn_call.pillar].categories
                                  \/ KwHits(STIM_PILLARS[fn_call.pillar], f) > 0)

\* the Financial pillar scored one LOW finding that hits five of its
\* triggers, the sum being 2.5, followed by one no pillar matches
C19_Witness ==
  /\ fn_call.fn = "_score_pillar"
  /\ fn_ret.done
  /\ STIM_PILLARS[fn_call.pillar].short = "Financial"
  /\ Len(fn_call.the_findings) = 2
  /\ fn_call.the_findings[1].quote = "debt owe money"
  /\ fn_call.the_findings[2].quote = "hello"
  /\ fn_ret.scored[1] \in {2, 3}
  /\ fn_ret.scored[2] = << fn_call.the_findings[1] >>

\* the rank of a rating label, lowest first
LabelRank(label) ==
  CASE label = "LOW RISK" -> 0 [] label = "MEDIUM RISK" -> 1
    [] label = "HIGH RISK" -> 2 [] label = "CRITICAL RISK" -> 3

\* the total of four scores
Total4(ps) == ps[1] + ps[2] + ps[3] + ps[4]

\* C20: for four pillar scores in 0..10 _stim_risk_rating gives the
\* percentage total x 100 / 40 rounded to an integer (a nearest one, odd
\* totals included), within 0..100, with the label of the first band that
\* holds (>= 70 CRITICAL RISK, >= 50 HIGH RISK, >= 30 MEDIUM RISK, else LOW
\* RISK); [10,10,10,10] gives 100 and CRITICAL RISK, [0,0,0,0] gives 0 and
\* LOW RISK; raising one score lowers neither the percentage nor the label.
C20_RiskRating ==
  (fn_call.fn = "_stim_risk_rating" /\ fn_ret.done) =>
    LET ps == fn_call.pillar_scores
        label == fn_ret.rating[1]
        pct == fn_ret.rating[2]
    IN  /\ pct \in 0..100
        /\ 40 * pct - 100 * Total4(ps) \in -20..20
        /\ label = (IF pct >= 70 THEN "CRITICAL RISK"
                    ELSE IF pct >= 50 THEN "HIGH RISK"
                    ELSE IF pct >= 30 THEN "MEDIUM RISK" ELSE "LOW RISK")
        /\ (ps = <<10, 10, 10, 10>>) => (pct = 100 /\ label = "CRITICAL RISK")
        /\ (ps = <<0, 0, 0, 0>>) => (pct = 0 /\ label = "LOW RISK")
        /\ \A i \in 1..4 :
             ps[i] < 10 =>
               /\ _stim_risk_rating([ps EXCEPT ![i] = ps[i] + 1])[2] >= pct
               /\ LabelRank(_stim_risk_rating([ps EXCEPT ![i] = ps[i] + 1])[1])
                    >= LabelRank(label)

\* scores of total 27 are rated: 67.5 is rounded to 68, HIGH RISK, and one
\* more point gives 70, CRITICAL RISK
C20_Witness ==
  /\ fn_call.fn = "_stim_risk_rating"
  /\ fn_ret.done
  /\ fn_call.pillar_scores = <<10, 10, 7, 0>>
  /\ fn_ret.rating = <<"HIGH RISK", 68>>
  /\ _stim_risk_rating(<<10, 10, 7, 1>>) = <<"CRITICAL RISK", 70>>

\* C29: in every reachable state in which the stored status of a case is
\* "complete", its stored risk label is the risk cascade of the findings
\* stored for the case, at the steps at the start of a re-run too and for
\* a reader that looks at the case between two steps of a run.
C29_LabelMatchesStore ==
  \A c \in DOMAIN cases :
    cases[c].status = "complete" =>
      cases[c].risk_level = RiskRule(list_findings(c))

\* a report of a case is generated between the clear_findings and the
\* update_case of a re-run: the case is "complete", the report carries the
\* label of the run before, and the case has no finding
C29_ReportBetweenClearAndUpdate ==
  /\ fn_call.fn = "generate_report"
  /\ fn_ret.done
  /\ ~fn_ret.report.raised
  /\ fn_ret.report.total_findings = 0
  /\ fn_ret.report.risk_level \in {"medium", "high", "critical"}
  /\ cases[fn_call.id].status = "complete"
  /\ \E t \in Tasks : pc[t] = "set_analyzing" /\ case_id[t] = fn_call.id

\* the literal stands somewhere in the text
Contains(text, lit) == \E i \in 1..Len(text) : Occurs(text, lit, i)

\* the literal stands in the text at the start of a word
StartsWord(text, lit) ==
  \E i \in 1..Len(text) :
    Occurs(text, lit, i) /\ (i = 1 \/ ~IsWordChar(Char(text, i - 1)))

\* the outcome the claim states for the two-message chunk
OneThreatHigh ==
  /\ fn_ret.out.error = ""
  /\ Len(fn_ret.out.findings) = 1
  /\ fn_ret.out.findings[1].category = THREAT
  /\ _classify_by_keywords(fn_ret.out.findings[1].explanation)[1] = THREAT
  /\ fn_ret.out.findings[1].severity = HIGH
  /\ fn_ret.risk = "high"

\* C24 as stated: for the two-message chunk and a generator output of at
\* least 20 cleaned characters that contains "threat" and "isolat" and no
\* no-concern phrase, exactly one finding is created, of category THREAT
\* and severity HIGH, and the case risk is "high".
C24_ContainsThreat ==
  (/\ fn_call.fn = "analyze_one_chunk" /\ fn_ret.done
   /\ fn_call.work.chunk = TwoMessageChunk) =>
    LET cleaned == lower(_clean_response(fn_call.response_text.v))
    IN  (/\ Len(cleaned) >= 20
         /\ Contains(cleaned, "threat") /\ Contains(cleaned, "isolat")
         /\ ~NoConcern(cleaned))
          => OneThreatHigh

\* C24 amended: the same for a cleaned output in which "threat" stands at
\* the start of a word, in any letter case.
C24_ThreatWord ==
  (/\ fn_call.fn = "analyze_one_chunk" /\ fn_ret.done
   /\ fn_call.work.chunk = TwoMessageChunk) =>
    LET cleaned == lower(_clean_response(fn_call.response_text.v))
    IN  (/\ Len(cleaned) >= 20
         /\ StartsWord(cleaned, "threat") /\ Contains(cleaned, "isolat")
         /\ ~NoConcern(cleaned))
          => OneThreatHigh

\* the output with "isolates" before "THREAT" gave the one THREAT finding
\* of severity HIGH and the case risk "high"
C24_Witness ==
  /\ fn_call.fn = "analyze_one_chunk"
  /\ fn_ret.done
  /\ fn_call.work.chunk = TwoMessageChunk
  /\ fn_call.response_text = Str("This isolates her. It is a THREAT.")
  /\ OneThreatHigh
  /\ fn_ret.out.findings[1].quote = "I will hurt you if you tell anyone"

\* C25: every finding the pipeline creates has a quote of at most 300
\* characters and an explanation of at least 20 and at most 500
\* characters, whatever the generator text and the chunk.
C25_QuoteAndExplanationLengths ==
  (fn_call.fn \in {"analyze_one_chunk", "_process_response"} /\ fn_ret.done) =>
    \A i \in 1..Len(fn_ret.out.findings) :
      /\ Len(fn_ret.out.findings[i].quote) <= 300
      /\ Len(fn_ret.out.findings[i].explanation) >= 20
      /\ Len(fn_ret.out.findings[i].explanation) <= 500

\* a generator text of more than 500 cleaned characters for a chunk whose
\* only message has more than 300 gave a finding with a quote of 300 and
\* an explanation of 500 characters
C25_Witness ==
  /\ fn_call.fn = "analyze_one_chunk"
  /\ fn_ret.done
  /\ Len(fn_call.work.chunk) = 1
  /\ Len(fn_call.work.chunk[1].text) > 300
  /\ Len(fn_call.response_text.v) > 500
  /\ Len(fn_ret.out.findings) = 1
  /\ Len(fn_ret.out.findings[1].quote) = 300
  /\ Len(fn_ret.out.findings[1].explanation) = 500

\* the trigger-pattern counts of the messages of a chunk
RECURSIVE ScoresFrom(_, _)
ScoresFrom(chunk, i) ==
  IF i > Len(chunk) THEN << >>
  ELSE << ConcernScore(chunk[i].text) >> \o ScoresFrom(chunk, i + 1)

ScoresOf(chunk) == ScoresFrom(chunk, 1)

\* the first index of S
First(S) == CHOOSE i \in S : \A j \in S : i <= j

\* what the description of the selection gives for a chunk with these scores
SelectedBy(chunk, scores) ==
  LET top == {i \in 1..Len(chunk) : \A j \in 1..Len(chunk) : scores[j] <= scores[i]}
      nonblank == {i \in 1..Len(chunk) : strip(chunk[i].text) # ""}
  IN  IF chunk = << >> THEN ""
      ELSE IF scores[First(top)] > 0 THEN Truncate(chunk[First(top)].text, 300)
      ELSE IF nonblank # {} THEN Truncate(chunk[First(nonblank)].text, 300)
      ELSE fn_ret.quote

C26_SelectionOnly ==
  (fn_call.fn = "_select_concerning_quote" /\ fn_ret.done) =>
    fn_ret.quote = SelectedBy(fn_call.messages, ScoresOf(fn_call.messages))

\* the repetition key of a sentence
KeyOf(s) == Truncate(lower(strip(s)), 60)

\* the keys of the sentences from i on
RECURSIVE KeysFrom(_, _)
KeysFrom(sentences, i) ==
  IF i > Len(sentences) THEN << >>
  ELSE << KeyOf(sentences[i]) >> \o KeysFrom(sentences, i + 1)

\* the keys of the sentences of a text
KeysOfText(text) == KeysFrom(SplitSentences(text, 1), 1)

\* no key that is not empty stands more than twice in keys
AtMostTwice(keys) ==
  \A i \in 1..Len(keys) : keys[i] # "" => CountKey(keys, keys[i]) <= 2

\* the index of the first sentence whose key is met for the third time
ThirdAt(keys) ==
  LET third == {i \in 1..Len(keys) :
                  keys[i] # "" /\ CountKey(SubSeq(keys, 1, i), keys[i]) = 3}
  IN  IF third = {} THEN Len(keys) + 1 ELSE First(third)

\* the sentences before index n whose key is not empty
RECURSIVE Appended(_, _, _)
Appended(sentences, i, n) ==
  IF i >= n \/ i > Len(sentences) THEN << >>
  ELSE (IF KeyOf(sentences[i]) = "" THEN << >> ELSE << sentences[i] >>)
       \o Appended(sentences, i + 1, n)

\* the sentences of a plain text appended before a key is met a third time
AppendedOf(text) ==
  LET ins == SplitSentences(strip(text), 1)
  IN  Appended(ins, 1, ThirdAt(KeysFrom(ins, 1)))

\* C27: in the output of _clean_response no sentence key (the first 60
\* characters of the sentence, in lower case) stands more than twice: the
\* sentences are appended in order until a key is met for the third time,
\* and that sentence and all after it are dropped.
C27_NoKeyMoreThanTwice ==
  (fn_call.fn = "_clean_response" /\ fn_ret.done) =>
    /\ AtMostTwice(KeysOfText(fn_ret.cleaned))
    /\ fn_ret.cleaned = Truncate(strip(Join(AppendedOf(fn_call.text), 1)), 500)

\* the appended sentences alone: their keys stand at most twice, and the
\* output is their joined text cut to 500 characters
C27_AppendedSentencesOnly ==
  (fn_call.fn = "_clean_response" /\ fn_ret.done) =>
    /\ AtMostTwice(KeysFrom(AppendedOf(fn_call.text), 1))
    /\ fn_ret.cleaned = Truncate(strip(Join(AppendedOf(fn_call.text), 1)), 500)

\* how many of the findings have the category
CountOf(the_findings, cat) ==
  Cardinality({i \in 1..Len(the_findings) : the_findings[i].category = cat})

\* the line of a category when the findings have one of it
LineIf(the_findings, cat, line) ==
  IF CountOf(the_findings, cat) > 0 THEN << line >> ELSE << >>

\* the lines the policy produces before the default lines are considered
Produced(the_findings, label) ==
  (IF Contains(label, "CRITICAL") THEN << ActionUrgent, ActionPreserveEvidence >>
   ELSE IF Contains(label, "HIGH") THEN << ActionEscalate, ActionPreservePotential >>
   ELSE << >>)
  \o LineIf(the_findings, THREAT, ActionThreats)
  \o LineIf(the_findings, SCAM, ActionScam)
  \o LineIf(the_findings, ABUSE, ActionAbuse)

DefaultLines == {ActionMonitor, ActionReanalyse}

LinesOf(seq) == {seq[i] : i \in 1..Len(seq)}

\* C21: _recommend_actions gives, in this order, the two lines of a
\* CRITICAL label or else the two lines of a HIGH label, then one line for
\* each of threat, scam and abuse that has a finding; the two default
\* lines are given exactly when no such line was produced, so the list is
\* never empty and never mixes default lines with other lines.
C21_RecommendedActions ==
  (fn_call.fn = "_recommend_actions" /\ fn_ret.done) =>
    LET produced == Produced(fn_call.the_findings, fn_call.text)
        actions == fn_ret.actions
    IN  /\ produced # << >> => actions = produced
        /\ produced = << >> <=> actions = << ActionMonitor, ActionReanalyse >>
        /\ actions # << >>
        /\ LinesOf(actions) \cap DefaultLines # {} => LinesOf(actions) = DefaultLines

\* for a HIGH label and findings of threat and abuse the list is the
\* escalation line, the preservation line, the threat line, the abuse line
C21_Witness ==
  /\ fn_call.fn = "_recommend_actions"
  /\ fn_ret.done
  /\ fn_call.text = "HIGH RISK"
  /\ CountOf(fn_call.the_findings, THREAT) > 0
  /\ CountOf(fn_call.the_findings, ABUSE) > 0
  /\ fn_ret.actions = << ActionEscalate, ActionPreservePotential,
                         ActionThreats, ActionAbuse >>

\* C22: generate_report for a case that exists and has no findings does
\* not fail: the four pillar scores are 0, the rating is 0% LOW RISK, the
\* summary says no concerning indicators were found, with 0% and LOW RISK,
\* the key findings say there are none and the actions are the two default
\* lines; generate_report fails only for a case that does not exist.
C22_ReportWithoutFindings ==
  (fn_call.fn = "generate_report" /\ fn_ret.done) =>
    /\ fn_ret.report.raised <=> fn_call.id \notin DOMAIN cases
    /\ (fn_call.id \in DOMAIN cases /\ list_findings(fn_call.id) = << >>) =>
         /\ fn_ret.report.pillar_scores = << 0, 0, 0, 0 >>
         /\ fn_ret.report.rating = << "LOW RISK", 0 >>
         /\ Contains(fn_ret.report.summary, "found no concerning indicators")
         /\ Contains(fn_ret.report.summary, "0% (LOW RISK)")
         /\ fn_ret.report.key_findings = << "No findings to report.", "" >>
         /\ fn_ret.report.actions = << ActionMonitor, ActionReanalyse >>

\* the report of a case whose analysis completed without a finding
C22_Witness ==
  /\ fn_call.fn = "generate_report"
  /\ fn_ret.done
  /\ fn_call.id \in DOMAIN cases
  /\ cases[fn_call.id].status = "complete"
  /\ list_findings(fn_call.id) = << >>
  /\ ~fn_ret.report.raised
  /\ fn_ret.report.total_findings = 0
  /\ fn_ret.report.actions = << ActionMonitor, ActionReanalyse >>

\* C28: in every reachable state the progress record of a case has
\* 0 <= completed <= total, and status "complete" implies completed =
\* total, for any number of runs of the case, overlapping runs started
\* through the analyze endpoint included.
C28_ProgressWithinTotal ==
  \A c \in DOMAIN analysis_progress :
    /\ 0 <= analysis_progress[c].completed
    /\ analysis_progress[c].completed <= analysis_progress[c].total
    /\ analysis_progress[c].status = "complete"
         => analysis_progress[c].completed = analysis_progress[c].total

\* two runs of case c1 overlapped: the second run replaced the record
\* while the first was in its loop, both went on counting their chunks,
\* and the record of the two-chunk case says three chunks are completed
C28_CountedPastTotal ==
  /\ "c1" \in DOMAIN analysis_progress
  /\ analysis_progress["c1"].total = 2
  /\ analysis_progress["c1"].completed = 3
  /\ \A t \in Tasks : case_id[t] = "c1"

\* two stored findings of one (file, chunk index) pair
Doubled ==
  \E i, j \in 1..Len(findings) :
    /\ i < j
    /\ findings[i].file_id = findings[j].file_id
    /\ findings[i].chunk_index = findings[j].chunk_index

\* both tasks ran analyze_case for case c and both have returned
BothReturned(c) == \A t \in Tasks : pc[t] = "returned" /\ case_id[t] = c

\* C30: once two runs of analyze_case for the same case have both
\* finished, overlapping or not, no (file, chunk index) pair has two
\* stored findings and the stored risk label is the risk cascade of the
\* stored findings.
C30_OneRunStored ==
  \A c \in CaseIds :
    BothReturned(c) =>
      /\ ~Doubled
      /\ cases[c].risk_level = RiskRule(list_findings(c))

\* two overlapping runs of case c1 have both returned and the store holds
\* two findings of chunk 0 of its file
C30_BothRunsStored ==
  /\ BothReturned("c1")
  /\ Cardinality({i \in 1..Len(findings) :
                    findings[i].file_id = "f1" /\ findings[i].chunk_index = 0}) = 2

====
